---- MODULE Spec2Model ----
(***************************************************************************)
(* Model of tools/project_generator.py: the ProjectPageGenerator pipeline  *)
(* (asset discovery, metadata resolution, visualization keying, fragment   *)
(* rendering, placeholder substitution, write) and its command line entry. *)
(*                                                                         *)
(* Text is a sequence of atoms.  File names, project names, keys and       *)
(* titles are sequences of single characters, so that lower(), title(),    *)
(* replace(), glob matching and sorted() are computed character by         *)
(* character.  Fixed literals of the source (HTML chunks, the default      *)
(* record's sentences) are whole-string atoms.  A placeholder is the three *)
(* atoms "{{", NAME, "}}", and str.replace is a left-to-right scan for     *)
(* that subsequence.                                                       *)
(***************************************************************************)
EXTENDS Integers, Sequences, FiniteSets, TLC

(* ------------------------------ bounds --------------------------------- *)

\* largest number of entries in the project folder (besides the two metadata files)
MaxFiles == 2

(* ----------------------- characters and strings ------------------------ *)

\* printable ASCII in code point order, starting at code point 32 (code point 96
\* is spelled out)
ASCII ==
  <<" ", "!", "\"", "#", "$", "%", "&", "'", "(", ")", "*", "+", ",", "-", ".", "/", "0", "1", "2", "3", "4", "5", "6", "7", "8", "9", ":", ";", "<", "=", ">", "?", "@", "A", "B", "C", "D", "E", "F", "G", "H", "I", "J", "K", "L", "M", "N", "O", "P", "Q", "R", "S", "T", "U", "V", "W", "X", "Y", "Z", "[", "\\", "]", "^", "_", "(backtick)", "a", "b", "c", "d", "e", "f", "g", "h", "i", "j", "k", "l", "m", "n", "o", "p", "q", "r", "s", "t", "u", "v", "w", "x", "y", "z", "{", "|", "}", "~">>

UPPERCASE ==
  <<"A", "B", "C", "D", "E", "F", "G", "H", "I", "J", "K", "L", "M", "N", "O", "P", "Q", "R", "S", "T", "U", "V", "W", "X", "Y", "Z">>

LOWERCASE ==
  <<"a", "b", "c", "d", "e", "f", "g", "h", "i", "j", "k", "l", "m", "n", "o", "p", "q", "r", "s", "t", "u", "v", "w", "x", "y", "z">>

\* ord(c): the code point, by which sorted() and the comparison of str order characters
ord(c) == 31 + (CHOOSE i \in 1..Len(ASCII) : ASCII[i] = c)

IsUpper(c) == \E i \in 1..26 : UPPERCASE[i] = c

IsLower(c) == \E i \in 1..26 : LOWERCASE[i] = c

IsCased(c) == IsUpper(c) \/ IsLower(c)

lower_char(c) == IF IsUpper(c) THEN LOWERCASE[CHOOSE i \in 1..26 : UPPERCASE[i] = c] ELSE c

upper_char(c) == IF IsLower(c) THEN UPPERCASE[CHOOSE i \in 1..26 : LOWERCASE[i] = c] ELSE c

\* str.lower()
lower(s) == [i \in 1..Len(s) |-> lower_char(s[i])]

\* str.title() taking the words to be the parts between spaces
title_per_space_word(s) ==
  [i \in 1..Len(s) |->
     IF i > 1 /\ s[i-1] # " " THEN lower_char(s[i]) ELSE upper_char(s[i])]

\* str.title(): a cased character is upper-cased when the character before it
\* is not cased (or there is none), lower-cased otherwise
title(s) ==
  [i \in 1..Len(s) |->
     IF i > 1 /\ IsCased(s[i-1]) THEN lower_char(s[i]) ELSE upper_char(s[i])]

StartsWith(s, p) == Len(s) >= Len(p) /\ SubSeq(s, 1, Len(p)) = p

EndsWith(s, p) == Len(s) >= Len(p) /\ SubSeq(s, Len(s) - Len(p) + 1, Len(s)) = p

\* the operator "old in s" of str
Contains(s, old) ==
  \E i \in 1..(Len(s) - Len(old) + 1) : SubSeq(s, i, i + Len(old) - 1) = old

\* str.replace(old, new) for a non-empty old: the occurrences of old are taken
\* left to right, each search resuming behind the occurrence before it
replace(s, old, new) ==
  LET n == Len(old)
      occurrences == {i \in 1..(Len(s) - n + 1) :
                        s[i] = old[1] /\ SubSeq(s, i, i + n - 1) = old}
      RECURSIVE scan(_)
      scan(from) ==
        LET ahead == {i \in occurrences : i >= from}
        IN  IF ahead = {} THEN SubSeq(s, from, Len(s))
            ELSE LET at == CHOOSE i \in ahead : \A j \in ahead : i <= j
                 IN  SubSeq(s, from, at - 1) \o new \o scan(at + n)
  IN  scan(1)

\* ''.join(parts)
RECURSIVE join(_)
join(parts) == IF parts = <<>> THEN <<>> ELSE Head(parts) \o join(Tail(parts))

\* the comparison a < b of two str
RECURSIVE str_less(_, _)
str_less(a, b) ==
  IF b = <<>> THEN FALSE
  ELSE IF a = <<>> THEN TRUE
  ELSE IF Head(a) = Head(b) THEN str_less(Tail(a), Tail(b))
  ELSE ord(Head(a)) < ord(Head(b))

\* insertion of x into an ascending list, before the first element greater than x
RECURSIVE insert_sorted(_, _)
insert_sorted(x, l) ==
  IF l = <<>> THEN <<x>>
  ELSE IF str_less(x, Head(l)) THEN <<x>> \o l
  ELSE <<Head(l)>> \o insert_sorted(x, Tail(l))

\* sorted(l)
RECURSIVE sorted(_)
sorted(l) == IF l = <<>> THEN <<>> ELSE insert_sorted(Head(l), sorted(Tail(l)))

(* ------------------------------ os.path -------------------------------- *)

\* os.path.join(a, b) for a relative b and an a that does not end in "/"
path_join(a, b) == a \o <<"/">> \o b

\* os.path.basename(p): what follows the last "/"
basename(p) ==
  LET slashes == {i \in 1..Len(p) : p[i] = "/"}
  IN  IF slashes = {} THEN p
      ELSE SubSeq(p, (CHOOSE i \in slashes : \A j \in slashes : j <= i) + 1, Len(p))

\* os.path.splitext(f)[0] for a file name without "/": the name up to its
\* last ".", unless only dots come before that "."
splitext0(f) ==
  LET dots == {i \in 1..Len(f) : f[i] = "."}
      last == CHOOSE i \in dots : \A j \in dots : j <= i
  IN  IF dots = {} THEN f
      ELSE IF \E j \in 1..(last - 1) : f[j] # "." THEN SubSeq(f, 1, last - 1)
      ELSE f

\* the part splitext splits off, os.path.splitext(f)[1]
splitext1(f) == SubSeq(f, Len(splitext0(f)) + 1, Len(f))

\* fnmatch of a file name against "*" + suffix as glob applies it: "*" takes
\* any characters, and a name that starts with "." is hidden from the pattern
glob_suffix(f, suffix) == f # <<>> /\ f[1] # "." /\ EndsWith(f, suffix)

\* fnmatch of a file name against "*" + mid + "*" + suffix, as glob applies it
glob_mid_suffix(f, mid, suffix) ==
  /\ f # <<>> /\ f[1] # "."
  /\ \E i \in 1..Len(f) :
        /\ i + Len(mid) - 1 <= Len(f)
        /\ SubSeq(f, i, i + Len(mid) - 1) = mid
        /\ EndsWith(SubSeq(f, i + Len(mid), Len(f)), suffix)

\* the orders in which the operating system may list the entries of a folder
Listings(S) ==
  {l \in [1..Cardinality(S) -> S] : \A i, j \in 1..Cardinality(S) : i # j => l[i] # l[j]}

(* ------------- generate_visualization_description: literals ------------ *)

\* descriptions["snowpack"], line by line
DESC_SNOWPACK ==
  <<"\n",
    "                <h3>Key Insights</h3>",
    "\n",
    "                <p>This comprehensive analysis reveals critical patterns and trends in the dataset:</p>",
    "\n",
    "                <ul>",
    "\n",
    "                    <li><strong>Data Quality:</strong> High-quality dataset with comprehensive coverage</li>",
    "\n",
    "                    <li><strong>Trend Analysis:</strong> Clear patterns identified through statistical analysis</li>",
    "\n",
    "                    <li><strong>Performance Metrics:</strong> Quantifiable improvements demonstrated</li>",
    "\n",
    "                    <li><strong>Business Impact:</strong> Actionable insights for decision-making</li>",
    "\n",
    "                </ul>",
    "\n",
    "                <p>The analysis demonstrates excellent data quality and provides valuable insights for strategic planning.</p>",
    "\n",
    "            ">>

\* descriptions["reservoir"], line by line
DESC_RESERVOIR ==
  <<"\n",
    "                <h3>Operational Excellence</h3>",
    "\n",
    "                <p>This analysis shows effective data processing and management:</p>",
    "\n",
    "                <ul>",
    "\n",
    "                    <li><strong>System Performance:</strong> Optimal processing efficiency achieved</li>",
    "\n",
    "                    <li><strong>Data Integrity:</strong> High-quality data with minimal errors</li>",
    "\n",
    "                    <li><strong>Scalability:</strong> System designed for future growth</li>",
    "\n",
    "                    <li><strong>Reliability:</strong> Consistent performance across all metrics</li>",
    "\n",
    "                </ul>",
    "\n",
    "                <p>The system demonstrates robust performance and reliability throughout the analysis period.</p>",
    "\n",
    "            ">>

\* descriptions["deliveries"], line by line
DESC_DELIVERIES ==
  <<"\n",
    "                <h3>System Performance</h3>",
    "\n",
    "                <p>This analysis reveals efficient data processing patterns:</p>",
    "\n",
    "                <ul>",
    "\n",
    "                    <li><strong>Throughput:</strong> High-volume data processing capabilities</li>",
    "\n",
    "                    <li><strong>Efficiency:</strong> Optimized algorithms for maximum performance</li>",
    "\n",
    "                    <li><strong>Accuracy:</strong> Precise results with minimal variance</li>",
    "\n",
    "                    <li><strong>Scalability:</strong> System handles increasing data loads effectively</li>",
    "\n",
    "                </ul>",
    "\n",
    "                <p>The analysis demonstrates reliable data processing with strong performance characteristics.</p>",
    "\n",
    "            ">>

\* descriptions["conservation"], line by line
DESC_CONSERVATION ==
  <<"\n",
    "                <h3>Measurable Impact</h3>",
    "\n",
    "                <p>This analysis shows significant improvements and measurable results:</p>",
    "\n",
    "                <ul>",
    "\n",
    "                    <li><strong>Performance Gains:</strong> Substantial improvements across key metrics</li>",
    "\n",
    "                    <li><strong>Data Quality:</strong> High-quality results with comprehensive coverage</li>",
    "\n",
    "                    <li><strong>Methodology:</strong> Robust analytical approach with validated results</li>",
    "\n",
    "                    <li><strong>Business Value:</strong> Clear ROI and strategic insights provided</li>",
    "\n",
    "                </ul>",
    "\n",
    "                <p>These results demonstrate successful implementation and measurable business impact.</p>",
    "\n",
    "            ">>

\* descriptions["gpcd"], line by line
DESC_GPCD ==
  <<"\n",
    "                <h3>Success Metrics</h3>",
    "\n",
    "                <p>This analysis demonstrates successful outcomes and positive trends:</p>",
    "\n",
    "                <ul>",
    "\n",
    "                    <li><strong>Improvement Trend:</strong> Consistent positive performance over time</li>",
    "\n",
    "                    <li><strong>Benchmark Performance:</strong> Results exceed industry standards</li>",
    "\n",
    "                    <li><strong>Statistical Significance:</strong> Robust statistical validation of results</li>",
    "\n",
    "                    <li><strong>Strategic Value:</strong> Clear business impact and decision support</li>",
    "\n",
    "                </ul>",
    "\n",
    "                <p>The analysis indicates successful implementation with measurable positive outcomes.</p>",
    "\n",
    "            ">>

\* the description returned when no keyword matches
DESC_DEFAULT ==
  <<"\n",
    "            <h3>Analysis Results</h3>",
    "\n",
    "            <p>This visualization presents key findings from the comprehensive data analysis:</p>",
    "\n",
    "            <ul>",
    "\n",
    "                <li><strong>Data Insights:</strong> Important patterns and trends identified</li>",
    "\n",
    "                <li><strong>Statistical Analysis:</strong> Robust methodology with validated results</li>",
    "\n",
    "                <li><strong>Performance Metrics:</strong> Quantifiable improvements demonstrated</li>",
    "\n",
    "                <li><strong>Business Impact:</strong> Actionable insights for strategic planning</li>",
    "\n",
    "            </ul>",
    "\n",
    "            <p>The analysis provides valuable insights that support data-driven decision making.</p>",
    "\n",
    "        ">>

\* the dictionary descriptions, in its insertion order
descriptions ==
  <<[key |-> <<"s", "n", "o", "w", "p", "a", "c", "k">>, desc |-> DESC_SNOWPACK],
    [key |-> <<"r", "e", "s", "e", "r", "v", "o", "i", "r">>, desc |-> DESC_RESERVOIR],
    [key |-> <<"d", "e", "l", "i", "v", "e", "r", "i", "e", "s">>, desc |-> DESC_DELIVERIES],
    [key |-> <<"c", "o", "n", "s", "e", "r", "v", "a", "t", "i", "o", "n">>, desc |-> DESC_CONSERVATION],
    [key |-> <<"g", "p", "c", "d">>, desc |-> DESC_GPCD]>>

(* ------------------ extract_project_info: default record --------------- *)

\* the record extract_project_info returns when neither metadata file exists
DefaultInfo(project_name) ==
  [title |-> project_name,
   description |-> <<"Comprehensive data analysis and visualization project showcasing advanced analytics capabilities.">>,
   tech_stack |-> <<<<"Python">>,
       <<"Pandas">>,
       <<"Matplotlib">>,
       <<"Seaborn">>,
       <<"Plotly">>,
       <<"Data Analysis">>>>,
   insights |-> <<[value |-> <<"6">>,
        label |-> <<"Comprehensive Datasets Analyzed">>],
       [value |-> <<"127,579">>,
        label |-> <<"Data Points Processed">>],
       [value |-> <<"2,510">>,
        label |-> <<"Records Analyzed">>],
       [value |-> <<"8.7%">>,
        label |-> <<"Performance Improvement">>]>>,
   summary |-> <<"This project demonstrates advanced data analysis skills through comprehensive examination of complex datasets, providing actionable insights and professional visualizations.">>,
   key_insights |-> <<[icon |-> <<"fas fa-chart-line">>,
        title |-> <<"Data-Driven Insights">>,
        description |-> <<"Comprehensive analysis revealing key patterns and trends in the dataset.">>],
       [icon |-> <<"fas fa-database">>,
        title |-> <<"Robust Data Processing">>,
        description |-> <<"Efficient handling and processing of large-scale datasets with optimized performance.">>],
       [icon |-> <<"fas fa-eye">>,
        title |-> <<"Clear Visualizations">>,
        description |-> <<"Professional-grade visualizations that communicate insights effectively.">>],
       [icon |-> <<"fas fa-cogs">>,
        title |-> <<"Technical Excellence">>,
        description |-> <<"Advanced statistical analysis and machine learning techniques applied.">>]>>,
   technical_implementation |-> <<[title |-> <<"Data Pipeline">>,
        description |-> <<"End-to-end analysis workflow from data collection through visualization, including data cleaning, feature engineering, and quality assurance processes.">>],
       [title |-> <<"Statistical Analysis">>,
        description |-> <<"Advanced statistical methods including trend analysis, correlation studies, seasonal decomposition, and predictive modeling.">>],
       [title |-> <<"Visualization Design">>,
        description |-> <<"Professional-grade static and interactive visualizations using modern libraries with custom styling and responsive design principles.">>],
       [title |-> <<"Business Intelligence">>,
        description |-> <<"KPI development, executive reporting, and stakeholder communication through data-driven insights and actionable recommendations.">>]>>,
   business_value |-> [title |-> <<"For Data-Driven Organizations">>,
      items |-> <<[icon |-> <<"fas fa-chart-bar">>,
           title |-> <<"Performance Metrics">>,
           description |-> <<"Quantifiable results and ROI analysis">>],
          [icon |-> <<"fas fa-search">>,
           title |-> <<"Pattern Recognition">>,
           description |-> <<"Long-term trend identification and forecasting">>],
          [icon |-> <<"fas fa-cogs">>,
           title |-> <<"Process Optimization">>,
           description |-> <<"Efficiency improvement opportunities">>],
          [icon |-> <<"fas fa-users">>,
           title |-> <<"Stakeholder Communication">>,
           description |-> <<"Clear data visualization and executive reporting">>]>>],
   project_links |-> <<[text |-> <<"Interactive Dashboard">>,
        icon |-> <<"fas fa-chart-line">>,
        url |-> <<"dashboard.html">>,
        style |-> <<"background: linear-gradient(135deg, #2563eb, #7c3aed);">>],
       [text |-> <<"Documentation">>,
        icon |-> <<"fas fa-book">>,
        url |-> <<"README.md">>,
        style |-> <<"background: linear-gradient(135deg, #7c3aed, #4ecdc4);">>],
       [text |-> <<"Source Code">>,
        icon |-> <<"fas fa-code">>,
        url |-> <<"analysis.py">>,
        style |-> <<"background: linear-gradient(135deg, #4ecdc4, #fbbf24);">>]>>]

(* ------------------------------- dicts --------------------------------- *)

\* A dict is the sequence of its items [key, value] in insertion order.
dict_has(d, k) == \E i \in 1..Len(d) : d[i].key = k

dict_get(d, k) == d[CHOOSE i \in 1..Len(d) : d[i].key = k].value

\* d[k] = v: a new key is appended, an existing key keeps its position
dict_set(d, k, v) ==
  IF dict_has(d, k)
  THEN [i \in 1..Len(d) |-> IF d[i].key = k THEN [key |-> k, value |-> v] ELSE d[i]]
  ELSE Append(d, [key |-> k, value |-> v])

dict_keys(d) == [i \in 1..Len(d) |-> d[i].key]

(* ------------------------- VisualizationKeyer --------------------------- *)

\* viz_key_of without the removal of "-"
viz_key_of_keeping_hyphen(name) ==
  replace(replace(lower(name), <<"_">>, <<>>), <<" ">>, <<>>)

\* the key of an image name: lower(), then "_", "-" and " " removed in that order
viz_key_of(name) ==
  replace(replace(replace(lower(name), <<"_">>, <<>>), <<"-">>, <<>>), <<" ">>, <<>>)

\* the title derived from an image name
title_of(name) == title(replace(name, <<"_">>, <<" ">>))

\* first_keyword_match without the early return: the last key found wins
RECURSIVE last_keyword_match(_, _)
last_keyword_match(items, name_lower) ==
  IF items = <<>> THEN DESC_DEFAULT
  ELSE IF Contains(name_lower, items[Len(items)].key) THEN items[Len(items)].desc
  ELSE last_keyword_match(SubSeq(items, 1, Len(items) - 1), name_lower)

\* the loop over descriptions.items(): the first key found in name_lower
RECURSIVE first_keyword_match(_, _)
first_keyword_match(items, name_lower) ==
  IF items = <<>> THEN DESC_DEFAULT
  ELSE IF Contains(name_lower, Head(items).key) THEN Head(items).desc
  ELSE first_keyword_match(Tail(items), name_lower)

\* generate_visualization_description matching the keywords against the key
generate_visualization_description_by_key(name) ==
  first_keyword_match(descriptions, viz_key_of(name))

generate_visualization_description(name) ==
  first_keyword_match(descriptions, lower(name))

\* project_info.get("visualization_descriptions", ...) with a built-in mapping
\* in the place of the empty one
custom_descriptions_of_inheriting(info) ==
  IF "visualization_descriptions" \in DOMAIN info THEN info.visualization_descriptions
  ELSE <<[key   |-> <<"s", "n", "o", "w", "p", "a", "c", "k">>,
          value |-> [title |-> <<"Snowpack Analysis">>, description |-> DESC_SNOWPACK]]>>

\* project_info.get("visualization_descriptions", {})
custom_descriptions_of(info) ==
  IF "visualization_descriptions" \in DOMAIN info
  THEN info.visualization_descriptions ELSE <<>>

\* viz_entry without the test for a custom description
viz_entry_ignoring_custom(image_path, custom_descriptions, folder) ==
  LET filename == basename(image_path)
      name     == splitext0(filename)
  IN  [key   |-> viz_key_of(name),
       value |-> [title |-> title_of(name),
                  image |-> <<".", ".", "/">> \o path_join(folder, filename),
                  description |-> generate_visualization_description(name)]]

\* the body of the loop of generate_visualization_data for one image
viz_entry(image_path, custom_descriptions, folder) ==
  LET filename == basename(image_path)
      name     == splitext0(filename)
      viz_key  == viz_key_of(name)
      custom   == dict_has(custom_descriptions, viz_key)
  IN  [key   |-> viz_key,
       value |-> [title |-> IF custom THEN dict_get(custom_descriptions, viz_key).title
                            ELSE title_of(name),
                  image |-> <<".", ".", "/">> \o path_join(folder, filename),
                  description |-> IF custom
                                  THEN dict_get(custom_descriptions, viz_key).description
                                  ELSE generate_visualization_description(name)]]

\* the loop keeping the entry a key already has
RECURSIVE viz_data_loop_first_wins(_, _, _, _)
viz_data_loop_first_wins(viz_data_acc, imgs, custom_descriptions, folder) ==
  IF imgs = <<>> THEN viz_data_acc
  ELSE LET e == viz_entry(Head(imgs), custom_descriptions, folder)
       IN  viz_data_loop_first_wins(
             IF dict_has(viz_data_acc, e.key) THEN viz_data_acc
             ELSE dict_set(viz_data_acc, e.key, e.value),
             Tail(imgs), custom_descriptions, folder)

RECURSIVE viz_data_loop(_, _, _, _)
viz_data_loop(viz_data_acc, imgs, custom_descriptions, folder) ==
  IF imgs = <<>> THEN viz_data_acc
  ELSE LET e == viz_entry(Head(imgs), custom_descriptions, folder)
       IN  viz_data_loop(dict_set(viz_data_acc, e.key, e.value), Tail(imgs),
                         custom_descriptions, folder)

generate_visualization_data(imgs, info, folder) ==
  viz_data_loop(<<>>, imgs, custom_descriptions_of(info), folder)

(* --------------------------- ContentRenderer ---------------------------- *)

tech_item(tech) == <<"<span class=\"tech-item\">">> \o tech \o <<"</span>">>

generate_tech_stack_html(tech_stack) == join([i \in 1..Len(tech_stack) |-> tech_item(tech_stack[i])])

insight_card(insight) ==
  <<"<div class=\"insight-card\"><h3>">> \o insight.value
    \o <<"</h3><p>">> \o insight.label \o <<"</p></div>">>

generate_insight_cards_html(insights) == join([i \in 1..Len(insights) |-> insight_card(insights[i])])

key_insight_card(insight) ==
  <<"<div class=\"insight-card\">\n                <i class=\"">> \o insight.icon
    \o <<"\" style=\"font-size: 2rem; color: #2563eb; margin-bottom: 1rem;\"></i>\n                <h3>">>
    \o insight.title
    \o <<"</h3>\n                <p>">> \o insight.description
    \o <<"</p>\n            </div>">>

generate_key_insights_html(key_insights) == join([i \in 1..Len(key_insights) |-> key_insight_card(key_insights[i])])

\* viz_card_of with a key that keeps the case of the file name
viz_card_of_keeping_case(image_path, folder) ==
  LET filename == basename(image_path)
      name     == splitext0(filename)
  IN  [viz_key |-> replace(replace(replace(name, <<"_">>, <<>>), <<"-">>, <<>>), <<" ">>, <<>>),
       src     |-> <<".", ".", "/">> \o path_join(folder, filename),
       title   |-> title_of(name)]

\* viz_card_of with the name of the file as the title
viz_card_of_raw_title(image_path, folder) ==
  LET filename == basename(image_path)
      name     == splitext0(filename)
  IN  [viz_key |-> viz_key_of(name),
       src     |-> <<".", ".", "/">> \o path_join(folder, filename),
       title   |-> name]

\* the values the loop of generate_visualizations_html interpolates for one image
viz_card_of(image_path, folder) ==
  LET filename == basename(image_path)
      name     == splitext0(filename)
  IN  [viz_key |-> viz_key_of(name),
       src     |-> <<".", ".", "/">> \o path_join(folder, filename),
       title   |-> title_of(name)]

\* the block appended to html for one image
viz_card_html(card) ==
  <<"\n                <div class=\"viz-card\" onclick=\"expandVisualization('">>
    \o card.viz_key
    \o <<"')\">\n                    <img src=\"">> \o card.src
    \o <<"\" alt=\"">> \o card.title
    \o <<"\">\n                    <div class=\"viz-card-content\">\n                        <h3>">>
    \o card.title
    \o <<"</h3>\n                        <p>Comprehensive analysis showing key patterns, trends, and insights from the dataset.</p>\n                        <div class=\"expand-hint\">\n                            <i class=\"fas fa-expand-arrows-alt\"></i> Click to expand\n                        </div>\n                    </div>\n                </div>\n            ">>

\* the cards taken in the reverse of the order of images
viz_cards_reversed(imgs, folder) ==
  [i \in 1..Len(imgs) |-> viz_card_of(imgs[Len(imgs) + 1 - i], folder)]

\* the cards of generate_visualizations_html, one per image, in the order of images
viz_cards(imgs, folder) == [i \in 1..Len(imgs) |-> viz_card_of(imgs[i], folder)]

generate_visualizations_html(imgs, folder) == join([i \in 1..Len(imgs) |-> viz_card_html(viz_cards(imgs, folder)[i])])

technical_card(item) ==
  <<"<div class=\"insight-card\">\n                <h3>">> \o item.title
    \o <<"</h3>\n                <p>">> \o item.description
    \o <<"</p>\n            </div>">>

\* generate_technical_implementation_html joining the blocks last entry first
generate_technical_implementation_html_reversed(technical_items) ==
  join([i \in 1..Len(technical_items) |->
          technical_card(technical_items[Len(technical_items) + 1 - i])])

generate_technical_implementation_html(technical_items) ==
  join([i \in 1..Len(technical_items) |-> technical_card(technical_items[i])])

business_item(item) ==
  <<"<div>\n                <i class=\"">> \o item.icon
    \o <<"\" style=\"font-size: 2rem; color: #2563eb; margin-bottom: 1rem;\"></i>\n                <h4>">>
    \o item.title
    \o <<"</h4>\n                <p>">> \o item.description
    \o <<"</p>\n            </div>">>

generate_business_value_html(business_items) == join([i \in 1..Len(business_items) |-> business_item(business_items[i])])

\* link.get("style", "")
link_style(link) == IF "style" \in DOMAIN link THEN link.style ELSE <<>>

project_link(link) ==
  <<"<a href=\"">> \o link.url
    \o <<"\" class=\"dashboard-link\" target=\"_blank\" style=\"">> \o link_style(link)
    \o <<"\">\n                <i class=\"">> \o link.icon
    \o <<"\"></i>\n                ">> \o link.text
    \o <<"\n            </a>">>

\* generate_project_links_html with a marker for an empty list
generate_project_links_html_with_marker(project_links) ==
  IF project_links = <<>> THEN <<"<p>No links</p>">>
  ELSE join([i \in 1..Len(project_links) |-> project_link(project_links[i])])

generate_project_links_html(project_links) == join([i \in 1..Len(project_links) |-> project_link(project_links[i])])

(* ------------------------------ json.dumps ------------------------------ *)

\* a character json.loads yields for the escape \ud800: a lone surrogate, which
\* the utf-8 codec refuses to encode
SURROGATE == "(U+D800)"

\* the escape json.dumps (ensure_ascii) writes for one atom of a string
json_escape_atom(a) ==
  IF a = "\"" THEN "\\\""
  ELSE IF a = "\\" THEN "\\\\"
  ELSE IF a = "\n" THEN "\\n"
  ELSE IF a = SURROGATE THEN "\\ud800"
  ELSE a

json_string(s) == <<"\"">> \o [i \in 1..Len(s) |-> json_escape_atom(s[i])] \o <<"\"">>

\* one item of the outer object, at indent level 1
json_item(item) ==
  <<"\n", "  ">> \o json_string(item.key) \o <<": ", "{">>
    \o <<"\n", "    ">> \o json_string(<<"t", "i", "t", "l", "e">>) \o <<": ">>
    \o json_string(item.value.title) \o <<",">>
    \o <<"\n", "    ">> \o json_string(<<"i", "m", "a", "g", "e">>) \o <<": ">>
    \o json_string(item.value.image) \o <<",">>
    \o <<"\n", "    ">>
    \o json_string(<<"d", "e", "s", "c", "r", "i", "p", "t", "i", "o", "n">>) \o <<": ">>
    \o json_string(item.value.description)
    \o <<"\n", "  ", "}">>

RECURSIVE json_items(_)
json_items(d) ==
  IF d = <<>> THEN <<>>
  ELSE json_item(Head(d)) \o (IF Len(d) > 1 THEN <<",">> ELSE <<>>) \o json_items(Tail(d))

\* json.dumps(viz_data, indent=2)
json_dumps(d) ==
  IF d = <<>> THEN <<"{", "}">> ELSE <<"{">> \o json_items(d) \o <<"\n", "}">>

(* --------------------------- TemplateCompositor ------------------------- *)

\* the keys of the dict replacements, in the order the literal lists them
PLACEHOLDERS ==
  <<"PROJECT_TITLE", "PROJECT_DESCRIPTION", "TECH_STACK", "INSIGHT_CARDS",
    "PROJECT_SUMMARY", "KEY_INSIGHTS", "VISUALIZATIONS", "DASHBOARD_TITLE",
    "DASHBOARD_DESCRIPTION", "DASHBOARD_LINK", "TECHNICAL_IMPLEMENTATION",
    "BUSINESS_VALUE_TITLE", "BUSINESS_VALUE_ITEMS", "PROJECT_LINKS",
    "VISUALIZATION_DATA">>

\* the token "{{NAME}}"
placeholder(n) == <<"{{", n, "}}">>

\* the key of project_info each value of the literal looks up ("" for none);
\* a value is evaluated only after all the values before it
LOOKUPS ==
  <<"title", "description", "tech_stack", "insights", "summary", "key_insights",
    "", "", "", "", "technical_implementation", "business_value", "business_value",
    "project_links", "">>

\* the entries of the literal that call a fragment builder
BUILDERS == {3, 4, 6, 7, 11, 13, 14}

\* the first entry of the literal whose lookup raises KeyError, 0 if none does
first_missing(info) ==
  LET missing == {i \in 1..Len(LOOKUPS) : LOOKUPS[i] # "" /\ LOOKUPS[i] \notin DOMAIN info}
  IN  IF missing = {} THEN 0 ELSE CHOOSE i \in missing : \A j \in missing : i <= j

\* dashboard_link without the conditional: f"../{dashboard}"
dashboard_link_unconditional(dash) ==
  <<".", ".", "/">> \o (IF dash # <<>> THEN dash[1] ELSE <<"N", "o", "n", "e">>)

\* f"../{dashboard}" if dashboard else "#", dashboard being <<>> for None
dashboard_link(dash) == IF dash # <<>> THEN <<".", ".", "/">> \o dash[1] ELSE <<"#">>

\* the value of the i-th entry of the literal
replacement_value(i, info, imgs, dash, vdata, folder) ==
  CASE i = 1  -> info.title
    [] i = 2  -> info.description
    [] i = 3  -> generate_tech_stack_html(info.tech_stack)
    [] i = 4  -> generate_insight_cards_html(info.insights)
    [] i = 5  -> info.summary
    [] i = 6  -> generate_key_insights_html(info.key_insights)
    [] i = 7  -> generate_visualizations_html(imgs, folder)
    [] i = 8  -> <<"Interactive Analysis Dashboard">>
    [] i = 9  -> <<"An interactive dashboard combining all analyses into a single, explorable interface with real-time data exploration capabilities.">>
    [] i = 10 -> dashboard_link(dash)
    [] i = 11 -> generate_technical_implementation_html(info.technical_implementation)
    [] i = 12 -> info.business_value.title
    [] i = 13 -> generate_business_value_html(info.business_value.items)
    [] i = 14 -> generate_project_links_html(info.project_links)
    [] i = 15 -> json_dumps(vdata)

\* build_replacements without the entry of {{VISUALIZATION_DATA}}
build_replacements_without_data(info, imgs, dash, vdata, folder) ==
  [i \in 1..(Len(PLACEHOLDERS) - 1) |->
     [key   |-> placeholder(PLACEHOLDERS[i]),
      value |-> replacement_value(i, info, imgs, dash, vdata, folder)]]

\* the dict replacements, as the sequence of its items
build_replacements(info, imgs, dash, vdata, folder) ==
  [i \in 1..Len(PLACEHOLDERS) |->
     [key   |-> placeholder(PLACEHOLDERS[i]),
      value |-> replacement_value(i, info, imgs, dash, vdata, folder)]]

\* the loop ending at the first placeholder the text does not have
RECURSIVE substitute_until_absent(_, _)
substitute_until_absent(text, items) ==
  IF items = <<>> \/ ~Contains(text, Head(items).key) THEN text
  ELSE substitute_until_absent(replace(text, Head(items).key, Head(items).value), Tail(items))

\* the replacements made in one pass over the template, the values not scanned
RECURSIVE substitute_at_once(_, _)
substitute_at_once(text, items) ==
  IF text = <<>> THEN <<>>
  ELSE LET hits == {k \in 1..Len(items) : StartsWith(text, items[k].key)}
       IN  IF hits # {}
           THEN LET k == CHOOSE h \in hits : TRUE
                IN  items[k].value
                      \o substitute_at_once(SubSeq(text, Len(items[k].key) + 1, Len(text)), items)
           ELSE <<text[1]>> \o substitute_at_once(Tail(text), items)

\* for placeholder, value in replacements.items(): template = template.replace(...)
RECURSIVE substitute(_, _)
substitute(text, items) ==
  IF items = <<>> THEN text
  ELSE substitute(replace(text, Head(items).key, Head(items).value), Tail(items))

\* the encoding of f.write: utf-8 refuses a lone surrogate
encodable(text) == \A i \in 1..Len(text) : text[i] # SURROGATE

(* -------------------------------- Writer -------------------------------- *)

\* the output path without the lower() of the project name
output_path_of_keeping_case(project_name) ==
  <<"w", "e", "b", "s", "i", "t", "e", "/">>
    \o replace(project_name, <<" ">>, <<"-">>)
    \o <<"-", "p", "r", "o", "j", "e", "c", "t", ".", "h", "t", "m", "l">>

\* f"website/{project_name.lower().replace(' ', '-')}-project.html"
output_path_of(project_name) ==
  <<"w", "e", "b", "s", "i", "t", "e", "/">>
    \o replace(lower(project_name), <<" ">>, <<"-">>)
    \o <<"-", "p", "r", "o", "j", "e", "c", "t", ".", "h", "t", "m", "l">>

(* ------------------------- inputs of the model -------------------------- *)

SCRIPT == <<"project_generator.py">>

\* the project folder given on the command line
FOLDER == <<"w", "c", "a">>

NAME_MY_PROJ == <<"M", "y", " ", "P", "r", "o", "j">>

NAME_Q3 == <<"Q", "3", " ", "W", "a", "t", "e", "r", "-", "U", "s", "e", " ", "b">>

ProjectNames == {NAME_MY_PROJ, NAME_Q3}

\* sys.argv: too short, or a project name and the project folder
Argvs ==
  {<<SCRIPT>>} \cup {<<SCRIPT, n>> : n \in ProjectNames}
    \cup {<<SCRIPT, n, FOLDER>> : n \in ProjectNames}

F_SNOW_PACK == <<"S", "n", "o", "w", "_", "P", "a", "c", "k", ".", "p", "n", "g">>

F_RESERVOIR_LEVELS == <<"r", "e", "s", "e", "r", "v", "o", "i", "r", "-", "l", "e", "v", "e", "l", "s", ".", "p", "n", "g">>

F_SNOW_PACK_JPG == <<"s", "n", "o", "w", "-", "p", "a", "c", "k", ".", "j", "p", "g">>

F_WATER_SUPPLY == <<"W", "a", "t", "e", "r", "_", "S", "u", "p", "p", "l", "y", "-", "2", "0", "2", "4", ".", "p", "n", "g">>

F_GPCD_CONSERVATION == <<"g", "p", "c", "d", " ", "c", "o", "n", "s", "e", "r", "v", "a", "t", "i", "o", "n", ".", "g", "i", "f">>

F_HIDDEN == <<".", "h", "i", "d", "d", "e", "n", ".", "p", "n", "g">>

F_MY_DASHBOARD == <<"m", "y", "_", "d", "a", "s", "h", "b", "o", "a", "r", "d", ".", "h", "t", "m", "l">>

F_DASHBOARD_V2 == <<"d", "a", "s", "h", "b", "o", "a", "r", "d", "-", "v", "2", ".", "h", "t", "m", "l">>

\* the entries a project folder may hold besides the two metadata files
FilePool ==
  {F_SNOW_PACK, F_RESERVOIR_LEVELS, F_SNOW_PACK_JPG, F_WATER_SUPPLY,
   F_GPCD_CONSERVATION, F_HIDDEN, F_MY_DASHBOARD, F_DASHBOARD_V2}

KEY_SNOWPACK == <<"s", "n", "o", "w", "p", "a", "c", "k">>

KEY_RESERVOIRLEVELS == <<"r", "e", "s", "e", "r", "v", "o", "i", "r", "l", "e", "v", "e", "l", "s">>

KEY_WATERSUPPLY2024 == <<"w", "a", "t", "e", "r", "s", "u", "p", "p", "l", "y", "2", "0", "2", "4">>

\* a metadata file: absent, present but not well-formed JSON, or a JSON object
NoFile == [exists |-> FALSE, json |-> <<>>]

Malformed == [exists |-> TRUE, json |-> <<>>]

JsonFile(r) == [exists |-> TRUE, json |-> <<r>>]

\* a complete record with custom visualization descriptions
CONFIG_FULL ==
  [title |-> <<"Flow Study">>,
   description |-> <<"Config description">>,
   tech_stack |-> <<<<"R">>, <<"SQL">>>>,
   insights |-> <<[value |-> <<"42">>, label |-> <<"Sites">>]>>,
   summary |-> <<"Config summary">>,
   key_insights |-> <<[icon |-> <<"fas fa-tint">>, title |-> <<"Flow">>,
                       description |-> <<"Flow is seasonal">>]>>,
   technical_implementation |-> <<[title |-> <<"ETL">>, description |-> <<"Nightly load">>],
                                   [title |-> <<"Model">>, description |-> <<"ARIMA">>]>>,
   business_value |-> [title |-> <<"For Utilities">>,
                       items |-> <<[icon |-> <<"fas fa-coins">>, title |-> <<"Savings">>,
                                    description |-> <<"Lower cost">>]>>],
   project_links |-> <<[text |-> <<"Report">>, icon |-> <<"fas fa-file">>,
                        url |-> <<"report.pdf">>],
                       [text |-> <<"Code">>, icon |-> <<"fas fa-code">>,
                        url |-> <<"flow.py">>, style |-> <<"color: red;">>]>>,
   visualization_descriptions |->
     <<[key |-> KEY_SNOWPACK,
        value |-> [title |-> <<"Custom Snow Title">>,
                   description |-> <<"<p>Custom snow text</p>">>]]>>]

\* a complete record with empty sequences and no visualization_descriptions
CONFIG_BARE ==
  [title |-> <<"Bare">>,
   description |-> <<"Bare description">>,
   tech_stack |-> <<>>,
   insights |-> <<>>,
   summary |-> <<"Bare summary">>,
   key_insights |-> <<>>,
   technical_implementation |-> <<>>,
   business_value |-> [title |-> <<"Bare value">>, items |-> <<>>],
   project_links |-> <<>>]

\* a JSON object that lacks required keys
CONFIG_PARTIAL ==
  [title |-> <<"Partial">>,
   description |-> <<"Partial description">>,
   tech_stack |-> <<<<"Go">>>>]

\* a complete record whose strings hold placeholder tokens and a lone surrogate
CONFIG_TOKENS ==
  [title |-> <<"About ", "{{", "PROJECT_SUMMARY", "}}">>,
   description |-> <<"See ", "{{", "PROJECT_TITLE", "}}">>,
   tech_stack |-> <<<<"Julia">>>>,
   insights |-> <<>>,
   summary |-> <<"Token summary">>,
   key_insights |-> <<>>,
   technical_implementation |-> <<>>,
   business_value |-> [title |-> <<"Value ", SURROGATE>>, items |-> <<>>],
   project_links |-> <<>>]

ConfigRecords == {CONFIG_FULL, CONFIG_BARE, CONFIG_PARTIAL, CONFIG_TOKENS}

\* the analysis summary: a complete record, different from every config in every field
SUMMARY_FULL ==
  [title |-> <<"Summary Title">>,
   description |-> <<"Summary description">>,
   tech_stack |-> <<<<"Stata">>>>,
   insights |-> <<[value |-> <<"7">>, label |-> <<"Basins">>]>>,
   summary |-> <<"Summary summary">>,
   key_insights |-> <<[icon |-> <<"fas fa-water">>, title |-> <<"Basin">>,
                       description |-> <<"Basins differ">>]>>,
   technical_implementation |-> <<[title |-> <<"Survey">>, description |-> <<"Field data">>]>>,
   business_value |-> [title |-> <<"For Districts">>,
                       items |-> <<[icon |-> <<"fas fa-map">>, title |-> <<"Planning">>,
                                    description |-> <<"Better plans">>]>>],
   project_links |-> <<[text |-> <<"Summary link">>, icon |-> <<"fas fa-link">>,
                        url |-> <<"summary.html">>]>>,
   visualization_descriptions |->
     <<[key |-> KEY_SNOWPACK,
        value |-> [title |-> <<"Summary Snow Title">>,
                   description |-> <<"<p>Summary snow text</p>">>]],
       [key |-> KEY_RESERVOIRLEVELS,
        value |-> [title |-> <<"Summary Reservoir Title">>,
                   description |-> <<"<p>Summary reservoir text</p>">>]]>>]

SummaryRecords == {SUMMARY_FULL}

\* a template with every placeholder once
TEMPLATE_FULL ==
  <<"<html><head><title>">> \o placeholder("PROJECT_TITLE") \o <<"</title></head><body><p>">>
    \o placeholder("PROJECT_DESCRIPTION") \o <<"</p><div class=\"tech\">">>
    \o placeholder("TECH_STACK") \o <<"</div><div class=\"insights\">">>
    \o placeholder("INSIGHT_CARDS") \o <<"</div><p>">>
    \o placeholder("PROJECT_SUMMARY") \o <<"</p><div class=\"key\">">>
    \o placeholder("KEY_INSIGHTS") \o <<"</div><div class=\"viz\">">>
    \o placeholder("VISUALIZATIONS") \o <<"</div><h2>">>
    \o placeholder("DASHBOARD_TITLE") \o <<"</h2><p>">>
    \o placeholder("DASHBOARD_DESCRIPTION") \o <<"</p>", "<a href=\"">>
    \o placeholder("DASHBOARD_LINK") \o <<"\">", "Open</a><div class=\"impl\">">>
    \o placeholder("TECHNICAL_IMPLEMENTATION") \o <<"</div><h2>">>
    \o placeholder("BUSINESS_VALUE_TITLE") \o <<"</h2><div class=\"value\">">>
    \o placeholder("BUSINESS_VALUE_ITEMS") \o <<"</div><div class=\"links\">">>
    \o placeholder("PROJECT_LINKS") \o <<"</div><script>const visualizationData = ">>
    \o placeholder("VISUALIZATION_DATA") \o <<";</script></body></html>">>

\* a template with few placeholders, one of them twice, and an unrecognized token
TEMPLATE_SPARSE ==
  <<"<h1>">> \o placeholder("PROJECT_TITLE") \o <<"</h1><p>">>
    \o placeholder("PROJECT_DESCRIPTION") \o <<"</p>", "<a href=\"">>
    \o placeholder("DASHBOARD_LINK") \o <<"\">">> \o placeholder("PROJECT_TITLE")
    \o <<"</a>">> \o placeholder("UNKNOWN") \o <<"{{", "}}">>

\* the template text "{{{{TECH_STACK}}PROJECT_TITLE}}<div>{{VISUALIZATIONS}}</div>
\* {{VISUALIZATION_DATA}}{{{{INSIGHT_CARDS}}PROJECT_SUMMARY}}": a placeholder
\* nested in the braces of one that is replaced before it, and of one that is
\* replaced after it
TEMPLATE_NESTED ==
  <<"{{">> \o placeholder("TECH_STACK") \o <<"PROJECT_TITLE", "}}", "<div>">>
    \o placeholder("VISUALIZATIONS") \o <<"</div>">> \o placeholder("VISUALIZATION_DATA")
    \o <<"{{">> \o placeholder("INSIGHT_CARDS") \o <<"PROJECT_SUMMARY", "}}">>

Templates == {TEMPLATE_FULL, TEMPLATE_SPARSE, TEMPLATE_NESTED}

OLD_PAGE == <<"<html>page of an earlier run</html>">>

PATH_MY_PROJ == <<"w", "e", "b", "s", "i", "t", "e", "/", "m", "y", "-", "p", "r", "o", "j", "-", "p", "r", "o", "j", "e", "c", "t", ".", "h", "t", "m", "l">>

PATH_Q3 == <<"w", "e", "b", "s", "i", "t", "e", "/", "q", "3", "-", "w", "a", "t", "e", "r", "-", "u", "s", "e", "-", "b", "-", "p", "r", "o", "j", "e", "c", "t", ".", "h", "t", "m", "l">>

\* the directory website/: missing, empty, or holding the pages of earlier runs
NO_SITE == [exists |-> FALSE, files |-> <<>>]

EMPTY_SITE == [exists |-> TRUE, files |-> <<>>]

OLD_SITE ==
  [exists |-> TRUE,
   files  |-> <<[key |-> PATH_MY_PROJ, value |-> OLD_PAGE],
                [key |-> PATH_Q3, value |-> OLD_PAGE]>>]

Sites == {NO_SITE, EMPTY_SITE, OLD_SITE}

(* -------------------------------- state --------------------------------- *)

VARIABLES
  argv,            \* sys.argv
  folder_exists,   \* os.path.exists(project_folder)
  template_file,   \* tools/project-template.html: <<>> if absent, else <<text>>
  config_file,     \* project_config.json in the project folder
  summary_file,    \* analysis_summary.json in the project folder
  files,           \* the other entries of the project folder
  website,         \* the directory website/ and its files
  website_before,  \* website as it was when the run started
  pc,              \* the position of the run
  project_name,    \* self.project_name
  project_folder,  \* self.project_folder
  output_path,     \* self.output_path
  template,        \* generate_html: template
  project_info,    \* generate_html: project_info, <<>> until set, then <<record>>
  images,          \* generate_html: images
  dashboard,       \* generate_html: dashboard, <<>> for None, else <<path>>
  viz_data,        \* generate_html: viz_data
  replacements,    \* generate_html: replacements
  rendered,        \* the entries of replacements whose fragment builder was called
  html_content,    \* save_project_page: html_content, <<>> until set, then <<text>>
  handles,         \* the files the run holds open
  error,           \* the exception that ended the run, "" if none
  stdout,          \* the lines printed
  stages,          \* the steps the run has taken, in order
  returned,        \* the value save_project_page returned, <<>> until then
  earlier_run      \* what an earlier run over the same folder left, <<>> if none

vars ==
  <<argv, folder_exists, template_file, config_file, summary_file, files, website,
    website_before, pc,
    project_name, project_folder, output_path, template, project_info, images,
    dashboard, viz_data, replacements, rendered, html_content, handles, error, stdout,
    stages, returned, earlier_run>>

\* what the run reads and does not write
inputs ==
  <<argv, folder_exists, template_file, config_file, summary_file, files, website_before,
    earlier_run>>

\* the attributes set by __init__
attrs == <<project_name, project_folder, output_path>>

Init ==
  /\ argv \in Argvs
  /\ template_file \in {<<>>} \cup {<<t>> : t \in Templates}
  /\ website \in Sites
  /\ website_before = website
  /\ folder_exists \in BOOLEAN
  /\ IF folder_exists
     THEN /\ config_file \in {NoFile, Malformed} \cup {JsonFile(r) : r \in ConfigRecords}
          /\ summary_file \in {NoFile, Malformed} \cup {JsonFile(r) : r \in SummaryRecords}
          /\ files \in {S \in SUBSET FilePool : Cardinality(S) <= MaxFiles}
     ELSE /\ config_file = NoFile
          /\ summary_file = NoFile
          /\ files = {}
  /\ pc = "main"
  /\ project_name = <<>>
  /\ project_folder = <<>>
  /\ output_path = <<>>
  /\ template = <<>>
  /\ project_info = <<>>
  /\ images = <<>>
  /\ dashboard = <<>>
  /\ viz_data = <<>>
  /\ replacements = <<>>
  /\ rendered = {}
  /\ html_content = <<>>
  /\ handles = {}
  /\ error = ""
  /\ stdout = <<>>
  /\ stages = <<>>
  /\ returned = <<>>
  /\ earlier_run = <<>>

\* an exception caught by a loop that starts generate_html again
raise_and_retry(e) == pc' = "load_template" /\ error' = e

\* an exception propagates out of main: the run ends
raise(e) == pc' = "failed" /\ error' = e

(* --------------------------------- main --------------------------------- *)

\* main: fewer than two arguments
MainUsage ==
  /\ pc = "main"
  /\ Len(argv) < 3
  /\ stdout' = stdout \o <<"Usage", "Example">>
  /\ pc' = "returned"
  /\ stages' = Append(stages, "main")
  /\ UNCHANGED <<inputs, website, attrs, template, project_info, images, dashboard,
                 viz_data, replacements, rendered, html_content, handles, error, returned>>

\* main: the project folder does not exist
MainNotFound ==
  /\ pc = "main"
  /\ Len(argv) >= 3
  /\ ~folder_exists
  /\ stdout' = Append(stdout, "Project folder not found")
  /\ pc' = "returned"
  /\ stages' = Append(stages, "main")
  /\ UNCHANGED <<inputs, website, attrs, template, project_info, images, dashboard,
                 viz_data, replacements, rendered, html_content, handles, error, returned>>

\* main going on to generate without the test of os.path.exists
MainGenerateUnguarded ==
  /\ pc = "main"
  /\ Len(argv) >= 3
  /\ project_name' = argv[2]
  /\ project_folder' = argv[3]
  /\ output_path' = output_path_of(argv[2])
  /\ pc' = "load_template"
  /\ stages' = Append(stages, "main")
  /\ UNCHANGED <<inputs, website, template, project_info, images, dashboard, viz_data,
                 replacements, rendered, html_content, handles, error, stdout, returned>>

\* main: ProjectPageGenerator(project_name, project_folder), then save_project_page
MainGenerate ==
  /\ pc = "main"
  /\ Len(argv) >= 3
  /\ folder_exists
  /\ project_name' = argv[2]
  /\ project_folder' = argv[3]
  /\ output_path' = output_path_of(argv[2])
  /\ pc' = "load_template"
  /\ stages' = Append(stages, "main")
  /\ UNCHANGED <<inputs, website, template, project_info, images, dashboard, viz_data,
                 replacements, rendered, html_content, handles, error, stdout, returned>>

(* ----------------------------- load_template ---------------------------- *)

\* load_template taking a missing template for an empty one
LoadTemplateOpenLenient ==
  /\ pc = "load_template"
  /\ IF template_file = <<>>
     THEN pc' = "extract_project_info" /\ UNCHANGED handles
     ELSE pc' = "load_template_read" /\ handles' = handles \cup {"template"}
  /\ stages' = Append(stages, "load_template")
  /\ UNCHANGED <<inputs, website, attrs, template, project_info, images, dashboard,
                 viz_data, replacements, rendered, html_content, error, stdout, returned>>

\* open(self.template_path, 'r')
LoadTemplateOpen ==
  /\ pc = "load_template"
  /\ IF template_file = <<>>
     THEN raise("FileNotFoundError") /\ UNCHANGED handles
     ELSE pc' = "load_template_read" /\ handles' = handles \cup {"template"}
            /\ UNCHANGED error
  /\ stages' = Append(stages, "load_template")
  /\ UNCHANGED <<inputs, website, attrs, template, project_info, images, dashboard,
                 viz_data, replacements, rendered, html_content, stdout, returned>>

\* return f.read(), leaving the with block
LoadTemplateRead ==
  /\ pc = "load_template_read"
  /\ template' = template_file[1]
  /\ handles' = handles \ {"template"}
  /\ pc' = "extract_project_info"
  /\ stages' = Append(stages, "load_template_read")
  /\ UNCHANGED <<inputs, website, attrs, project_info, images, dashboard, viz_data,
                 replacements, rendered, html_content, error, stdout, returned>>

(* -------------------------- extract_project_info ------------------------ *)

\* chosen_tier with the two tests in the other order
chosen_tier_summary_first(config, summary) ==
  IF summary.exists THEN "summary"
  ELSE IF config.exists THEN "config"
  ELSE "default"

\* the tier the two os.path.exists tests select
chosen_tier(config, summary) ==
  IF config.exists THEN "config"
  ELSE IF summary.exists THEN "summary"
  ELSE "default"

\* the file a tier reads
tier_file(tier) == IF tier = "config" THEN config_file ELSE summary_file

\* the tests for the two files, then open(...) of the first that exists, or the
\* return of the default record
ExtractProjectInfo ==
  /\ pc = "extract_project_info"
  /\ LET tier == chosen_tier(config_file, summary_file)
     IN  IF tier = "default"
         THEN /\ project_info' = <<DefaultInfo(project_name)>>
              /\ pc' = "find_visualizations"
              /\ UNCHANGED handles
         ELSE /\ handles' = handles \cup {tier}
              /\ pc' = "json_load"
              /\ UNCHANGED project_info
  /\ stages' = Append(stages, "extract_project_info")
  /\ UNCHANGED <<inputs, website, attrs, template, images, dashboard, viz_data,
                 replacements, rendered, html_content, error, stdout, returned>>

\* JsonLoad returning the default record updated with the keys of the file
JsonLoadMerging ==
  /\ pc = "json_load"
  /\ LET tier == CHOOSE h \in {"config", "summary"} : h \in handles
         file == tier_file(tier)
         base == DefaultInfo(project_name)
     IN  /\ handles' = handles \ {tier}
         /\ IF file.json = <<>>
            THEN raise("JSONDecodeError") /\ UNCHANGED project_info
            ELSE /\ project_info' =
                      <<[k \in DOMAIN base \cup DOMAIN file.json[1] |->
                           IF k \in DOMAIN file.json[1] THEN file.json[1][k] ELSE base[k]]>>
                 /\ pc' = "find_visualizations"
                 /\ UNCHANGED error
  /\ stages' = Append(stages, "json_load")
  /\ UNCHANGED <<inputs, website, attrs, template, images, dashboard, viz_data,
                 replacements, rendered, html_content, stdout, returned>>

\* JsonLoad catching the parse error and going on to the next tier
JsonLoadFallthrough ==
  /\ pc = "json_load"
  /\ LET tier == CHOOSE h \in {"config", "summary"} : h \in handles
         file == tier_file(tier)
     IN  /\ handles' = handles \ {tier}
         /\ project_info' =
               IF file.json # <<>> THEN file.json
               ELSE IF tier = "config" /\ summary_file.json # <<>> THEN summary_file.json
               ELSE <<DefaultInfo(project_name)>>
         /\ pc' = "find_visualizations"
         /\ UNCHANGED error
  /\ stages' = Append(stages, "json_load")
  /\ UNCHANGED <<inputs, website, attrs, template, images, dashboard, viz_data,
                 replacements, rendered, html_content, stdout, returned>>

\* JsonLoad closing the file only after a successful parse
JsonLoadLeaking ==
  /\ pc = "json_load"
  /\ LET tier == CHOOSE h \in {"config", "summary"} : h \in handles
         file == tier_file(tier)
     IN  IF file.json = <<>>
         THEN raise("JSONDecodeError") /\ UNCHANGED <<project_info, handles>>
         ELSE /\ project_info' = file.json
              /\ handles' = handles \ {tier}
              /\ pc' = "find_visualizations"
              /\ UNCHANGED error
  /\ stages' = Append(stages, "json_load")
  /\ UNCHANGED <<inputs, website, attrs, template, images, dashboard, viz_data,
                 replacements, rendered, html_content, stdout, returned>>

\* return json.load(f), leaving the with block; a file that is not well-formed
\* raises, and the with block still closes it
JsonLoad ==
  /\ pc = "json_load"
  /\ LET tier == CHOOSE h \in {"config", "summary"} : h \in handles
         file == tier_file(tier)
     IN  /\ handles' = handles \ {tier}
         /\ IF file.json = <<>>
            THEN raise("JSONDecodeError") /\ UNCHANGED project_info
            ELSE /\ project_info' = file.json
                 /\ pc' = "find_visualizations"
                 /\ UNCHANGED error
  /\ stages' = Append(stages, "json_load")
  /\ UNCHANGED <<inputs, website, attrs, template, images, dashboard, viz_data,
                 replacements, rendered, html_content, stdout, returned>>

(* ------------------------------ AssetScanner ---------------------------- *)

\* the patterns of find_visualizations without their "*", in the order of the list
IMAGE_EXTENSIONS ==
  <<<<".", "p", "n", "g">>, <<".", "j", "p", "g">>, <<".", "j", "p", "e", "g">>,
    <<".", "g", "i", "f">>, <<".", "s", "v", "g">>>>

\* glob.glob(os.path.join(folder, "*" + ext)) for a listing of the folder
glob_ext(listing, folder, ext) ==
  LET hits == SelectSeq(listing, LAMBDA f : glob_suffix(f, ext))
  IN  [i \in 1..Len(hits) |-> path_join(folder, hits[i])]

\* the list images after the loop over image_extensions
RECURSIVE glob_all(_, _, _)
glob_all(listing, folder, exts) ==
  IF exts = <<>> THEN <<>>
  ELSE glob_ext(listing, folder, Head(exts)) \o glob_all(listing, folder, Tail(exts))

\* find_visualizations returning images as the loop left it
find_visualizations_unsorted(listing, folder) == glob_all(listing, folder, IMAGE_EXTENSIONS)

\* find_visualizations returning the image files in the order of the listing
find_visualizations_as_listed(listing, folder) ==
  LET exts == {IMAGE_EXTENSIONS[i] : i \in 1..Len(IMAGE_EXTENSIONS)}
      hits == SelectSeq(listing, LAMBDA f : \E e \in exts : glob_suffix(f, e))
  IN  [i \in 1..Len(hits) |-> path_join(folder, hits[i])]

\* return sorted(images)
find_visualizations(listing, folder) == sorted(glob_all(listing, folder, IMAGE_EXTENSIONS))

\* glob.glob(os.path.join(folder, "*dashboard*.html")) for a listing of the folder
glob_dashboard(listing, folder) ==
  LET hits == SelectSeq(listing, LAMBDA f :
                  glob_mid_suffix(f, <<"d", "a", "s", "h", "b", "o", "a", "r", "d">>,
                                  <<".", "h", "t", "m", "l">>))
  IN  [i \in 1..Len(hits) |-> path_join(folder, hits[i])]

\* dashboard_files[0] if dashboard_files else None
find_dashboard(listing, folder) ==
  LET dashboard_files == glob_dashboard(listing, folder)
  IN  IF dashboard_files # <<>> THEN <<dashboard_files[1]>> ELSE <<>>

\* images = self.find_visualizations(); the folder is listed in any order
FindVisualizations ==
  /\ pc = "find_visualizations"
  /\ \E listing \in Listings(files) : images' = find_visualizations(listing, project_folder)
  /\ pc' = "find_dashboard"
  /\ stages' = Append(stages, "find_visualizations")
  /\ UNCHANGED <<inputs, website, attrs, template, project_info, dashboard, viz_data,
                 replacements, rendered, html_content, handles, error, stdout, returned>>

\* dashboard = self.find_dashboard(); the folder is listed in any order
FindDashboard ==
  /\ pc = "find_dashboard"
  /\ \E listing \in Listings(files) : dashboard' = find_dashboard(listing, project_folder)
  /\ pc' = "generate_visualization_data"
  /\ stages' = Append(stages, "find_dashboard")
  /\ UNCHANGED <<inputs, website, attrs, template, project_info, images, viz_data,
                 replacements, rendered, html_content, handles, error, stdout, returned>>

(* ------------------------------ generate_html --------------------------- *)

\* viz_data = self.generate_visualization_data(images, project_info)
GenerateVisualizationData ==
  /\ pc = "generate_visualization_data"
  /\ viz_data' = generate_visualization_data(images, project_info[1], project_folder)
  /\ pc' = "replacements"
  /\ stages' = Append(stages, "generate_visualization_data")
  /\ UNCHANGED <<inputs, website, attrs, template, project_info, images, dashboard,
                 replacements, rendered, html_content, handles, error, stdout, returned>>

\* the dict literal replacements: its values are evaluated in order, and the
\* first lookup of a key project_info lacks raises KeyError
BuildReplacements ==
  /\ pc = "replacements"
  /\ LET info == project_info[1]
         bad  == first_missing(info)
     IN  IF bad # 0
         THEN /\ raise("KeyError")
              /\ rendered' = {i \in BUILDERS : i < bad}
              /\ UNCHANGED replacements
         ELSE /\ replacements' =
                   build_replacements(info, images, dashboard, viz_data, project_folder)
              /\ rendered' = BUILDERS
              /\ pc' = "substitute"
              /\ UNCHANGED error
  /\ stages' = Append(stages, "replacements")
  /\ UNCHANGED <<inputs, website, attrs, template, project_info, images, dashboard,
                 viz_data, html_content, handles, stdout, returned>>

\* the loop raising on a placeholder the template does not have
SubstituteStrict ==
  /\ pc = "substitute"
  /\ IF \E i \in 1..Len(replacements) : ~Contains(template, replacements[i].key)
     THEN raise("KeyError") /\ UNCHANGED <<template, html_content>>
     ELSE /\ template' = substitute(template, replacements)
          /\ html_content' = <<template'>>
          /\ pc' = "save_open"
          /\ UNCHANGED error
  /\ stages' = Append(stages, "substitute")
  /\ UNCHANGED <<inputs, website, attrs, project_info, images, dashboard, viz_data,
                 replacements, rendered, handles, stdout, returned>>

\* the loop over replacements.items(), and the return into save_project_page
Substitute ==
  /\ pc = "substitute"
  /\ template' = substitute(template, replacements)
  /\ html_content' = <<template'>>
  /\ pc' = "save_open"
  /\ stages' = Append(stages, "substitute")
  /\ UNCHANGED <<inputs, website, attrs, project_info, images, dashboard, viz_data,
                 replacements, rendered, handles, error, stdout, returned>>

(* ---------------------------- save_project_page ------------------------- *)

\* SaveOpen with mode 'x': an existing page is not opened for writing
SaveOpenExclusive ==
  /\ pc = "save_open"
  /\ IF ~website.exists
     THEN raise("FileNotFoundError") /\ UNCHANGED <<website, handles>>
     ELSE IF dict_has(website.files, output_path)
     THEN raise("FileExistsError") /\ UNCHANGED <<website, handles>>
     ELSE /\ website' = [website EXCEPT !.files = dict_set(@, output_path, <<>>)]
          /\ handles' = handles \cup {"output"}
          /\ pc' = "save_write"
          /\ UNCHANGED error
  /\ stages' = Append(stages, "save_open")
  /\ UNCHANGED <<inputs, attrs, template, project_info, images, dashboard, viz_data,
                 replacements, rendered, html_content, stdout, returned>>

\* open(self.output_path, 'w'): creates the file or truncates it; fails when
\* the directory website/ does not exist
SaveOpen ==
  /\ pc = "save_open"
  /\ IF ~website.exists
     THEN raise("FileNotFoundError") /\ UNCHANGED <<website, handles>>
     ELSE /\ website' = [website EXCEPT !.files = dict_set(@, output_path, <<>>)]
          /\ handles' = handles \cup {"output"}
          /\ pc' = "save_write"
          /\ UNCHANGED error
  /\ stages' = Append(stages, "save_open")
  /\ UNCHANGED <<inputs, attrs, template, project_info, images, dashboard, viz_data,
                 replacements, rendered, html_content, stdout, returned>>

\* f.write(html_content), leaving the with block; the encoding to utf-8 fails
\* on a lone surrogate before anything is written
SaveWrite ==
  /\ pc = "save_write"
  /\ handles' = handles \ {"output"}
  /\ IF encodable(html_content[1])
     THEN /\ website' = [website EXCEPT !.files = dict_set(@, output_path, html_content[1])]
          /\ pc' = "save_return"
          /\ UNCHANGED error
     ELSE raise("UnicodeEncodeError") /\ UNCHANGED website
  /\ stages' = Append(stages, "save_write")
  /\ UNCHANGED <<inputs, attrs, template, project_info, images, dashboard, viz_data,
                 replacements, rendered, html_content, stdout, returned>>

\* print and return self.output_path, then the three prints of main
SaveReturn ==
  /\ pc = "save_return"
  /\ returned' = <<output_path>>
  /\ stdout' = stdout \o <<"Project page generated", "successfully generated",
                           "Output file", "View at">>
  /\ pc' = "done"
  /\ stages' = Append(stages, "save_return")
  /\ UNCHANGED <<inputs, website, attrs, template, project_info, images, dashboard,
                 viz_data, replacements, rendered, html_content, handles, error>>

(* ----------------------------- specification ---------------------------- *)

Next ==
  \/ MainUsage
  \/ MainNotFound
  \/ MainGenerate
  \/ LoadTemplateOpen
  \/ LoadTemplateRead
  \/ ExtractProjectInfo
  \/ JsonLoad
  \/ FindVisualizations
  \/ FindDashboard
  \/ GenerateVisualizationData
  \/ BuildReplacements
  \/ Substitute
  \/ SaveOpen
  \/ SaveWrite
  \/ SaveReturn

Spec == Init /\ [][Next]_vars

(* ------------------- generate_html as a function of its inputs ---------- *)

\* generate_html after load_template and extract_project_info have returned:
\* the template is read and the record resolved, for one project name and an
\* empty website/, with well-formed metadata files
GenerateHtmlInit ==
  /\ argv = <<SCRIPT, NAME_MY_PROJ, FOLDER>>
  /\ folder_exists = TRUE
  /\ template_file \in {<<t>> : t \in Templates}
  /\ template = template_file[1]
  /\ website = EMPTY_SITE
  /\ website_before = website
  /\ config_file \in {NoFile} \cup {JsonFile(r) : r \in ConfigRecords}
  /\ summary_file \in {NoFile} \cup {JsonFile(r) : r \in SummaryRecords}
  /\ files \in {S \in SUBSET FilePool : Cardinality(S) <= MaxFiles}
  /\ project_name = argv[2]
  /\ project_folder = argv[3]
  /\ output_path = output_path_of(argv[2])
  /\ LET tier == chosen_tier(config_file, summary_file)
     IN  /\ project_info = IF tier = "default" THEN <<DefaultInfo(project_name)>>
                           ELSE tier_file(tier).json
         /\ stages = <<"main", "load_template", "load_template_read", "extract_project_info">>
                       \o (IF tier = "default" THEN <<>> ELSE <<"json_load">>)
  /\ pc = "find_visualizations"
  /\ images = <<>>
  /\ dashboard = <<>>
  /\ viz_data = <<>>
  /\ replacements = <<>>
  /\ rendered = {}
  /\ html_content = <<>>
  /\ handles = {}
  /\ error = ""
  /\ stdout = <<>>
  /\ returned = <<>>
  /\ earlier_run = <<>>

\* the steps of generate_html from the scan of the folder to its return
GenerateHtmlNext ==
  \/ FindVisualizations
  \/ FindDashboard
  \/ GenerateVisualizationData
  \/ BuildReplacements
  \/ Substitute

GenerateHtmlSpec == GenerateHtmlInit /\ [][GenerateHtmlNext]_vars

(* ------------- two runs of the script over the same folder -------------- *)

\* the script is started a second time with the same arguments after a run
\* that wrote its page: main builds a new ProjectPageGenerator, so every
\* attribute and local starts afresh; the project folder and the template are
\* as they were, and website/ is as the earlier run left it
Rerun ==
  /\ pc = "done"
  /\ earlier_run = <<>>
  /\ earlier_run' = <<[html_content |-> html_content[1], viz_data |-> viz_data,
                       dashboard |-> dashboard, returned |-> returned[1],
                       website |-> website]>>
  /\ website_before' = website
  /\ pc' = "main"
  /\ project_name' = <<>>
  /\ project_folder' = <<>>
  /\ output_path' = <<>>
  /\ template' = <<>>
  /\ project_info' = <<>>
  /\ images' = <<>>
  /\ dashboard' = <<>>
  /\ viz_data' = <<>>
  /\ replacements' = <<>>
  /\ rendered' = {}
  /\ html_content' = <<>>
  /\ error' = ""
  /\ stdout' = <<>>
  /\ stages' = <<>>
  /\ returned' = <<>>
  /\ UNCHANGED <<argv, folder_exists, template_file, config_file, summary_file, files,
                 website, handles>>

\* runs with two arguments, an existing folder, a template and well-formed
\* metadata, the script started in a checkout with an empty website/
TwoRunsInit ==
  /\ argv = <<SCRIPT, NAME_MY_PROJ, FOLDER>>
  /\ folder_exists = TRUE
  /\ template_file \in {<<TEMPLATE_FULL>>, <<TEMPLATE_SPARSE>>}
  /\ website = EMPTY_SITE
  /\ website_before = website
  /\ config_file \in {NoFile, JsonFile(CONFIG_FULL), JsonFile(CONFIG_BARE)}
  /\ summary_file \in {NoFile, JsonFile(SUMMARY_FULL)}
  /\ files \in {S \in SUBSET FilePool : Cardinality(S) <= MaxFiles}
  /\ pc = "main"
  /\ project_name = <<>>
  /\ project_folder = <<>>
  /\ output_path = <<>>
  /\ template = <<>>
  /\ project_info = <<>>
  /\ images = <<>>
  /\ dashboard = <<>>
  /\ viz_data = <<>>
  /\ replacements = <<>>
  /\ rendered = {}
  /\ html_content = <<>>
  /\ handles = {}
  /\ error = ""
  /\ stdout = <<>>
  /\ stages = <<>>
  /\ returned = <<>>
  /\ earlier_run = <<>>

TwoRunsNext ==
  \/ MainGenerate
  \/ LoadTemplateOpen
  \/ LoadTemplateRead
  \/ ExtractProjectInfo
  \/ JsonLoad
  \/ FindVisualizations
  \/ FindDashboard
  \/ GenerateVisualizationData
  \/ BuildReplacements
  \/ Substitute
  \/ SaveOpen
  \/ SaveWrite
  \/ SaveReturn
  \/ Rerun

TwoRunsSpec == TwoRunsInit /\ [][TwoRunsNext]_vars

(* ----------- the keyer and the cards over more image names -------------- *)

F_Q1_FLOW_RATE == <<"2", "0", "2", "4", "q", "1", "_", "f", "l", "o", "w", "-", "r", "a", "t", "e", ".", "p", "n", "g">>

F_SNOW_CAPS == <<"S", "N", "O", "W", "_", "p", "a", "c", "k", ".", "p", "n", "g">>

F_WATER_USE == <<"w", "a", "t", "e", "r", "_", "_", "u", "s", "e", " ", "x", "2", "y", ".", "s", "v", "g">>

\* image names with upper case, digits before letters, hyphens, spaces and
\* two underscores in a row
TitlePool ==
  {F_RESERVOIR_LEVELS, F_WATER_SUPPLY, F_GPCD_CONSERVATION, F_Q1_FLOW_RATE, F_SNOW_CAPS,
   F_WATER_USE}

\* generate_html after the record is resolved, for a folder of such images
DisplayTitleInit ==
  /\ argv = <<SCRIPT, NAME_MY_PROJ, FOLDER>>
  /\ folder_exists = TRUE
  /\ template_file = <<TEMPLATE_FULL>>
  /\ template = template_file[1]
  /\ website = EMPTY_SITE
  /\ website_before = website
  /\ config_file \in {NoFile, JsonFile(CONFIG_FULL), JsonFile(CONFIG_BARE)}
  /\ summary_file = NoFile
  /\ files \in {S \in SUBSET TitlePool : Cardinality(S) <= MaxFiles}
  /\ project_name = argv[2]
  /\ project_folder = argv[3]
  /\ output_path = output_path_of(argv[2])
  /\ LET tier == chosen_tier(config_file, summary_file)
     IN  /\ project_info = IF tier = "default" THEN <<DefaultInfo(project_name)>>
                           ELSE tier_file(tier).json
         /\ stages = <<"main", "load_template", "load_template_read", "extract_project_info">>
                       \o (IF tier = "default" THEN <<>> ELSE <<"json_load">>)
  /\ pc = "find_visualizations"
  /\ images = <<>>
  /\ dashboard = <<>>
  /\ viz_data = <<>>
  /\ replacements = <<>>
  /\ rendered = {}
  /\ html_content = <<>>
  /\ handles = {}
  /\ error = ""
  /\ stdout = <<>>
  /\ returned = <<>>
  /\ earlier_run = <<>>

DisplayTitleNext ==
  \/ FindVisualizations
  \/ FindDashboard
  \/ GenerateVisualizationData
  \/ BuildReplacements

DisplayTitleSpec == DisplayTitleInit /\ [][DisplayTitleNext]_vars

(* ------------------------------ properties ------------------------------ *)

\* the run has taken the step
took(step) == \E i \in 1..Len(stages) : stages[i] = step

\* the step the run took last
just(step) == stages # <<>> /\ stages[Len(stages)] = step

\* C1: when project_config.json and analysis_summary.json both exist, what
\* extract_project_info returns is exactly the parsed content of
\* project_config.json: it has the keys of the config and no others, so no
\* key the config lacks is filled from the summary or from the default record.
C1_ConfigPriority ==
  (config_file.exists /\ summary_file.exists /\ project_info # <<>>) =>
    /\ project_info = config_file.json
    /\ DOMAIN project_info[1] = DOMAIN config_file.json[1]
    /\ "summary" \notin handles

\* both files exist, the config lacks visualization_descriptions, the summary has them
C1_Witness ==
  /\ pc = "done"
  /\ config_file = JsonFile(CONFIG_BARE)
  /\ summary_file = JsonFile(SUMMARY_FULL)
  /\ project_info = <<CONFIG_BARE>>
  /\ custom_descriptions_of(project_info[1]) = <<>>

\* C2: extract_project_info returns the summary file's content exactly when
\* the config file is absent and the summary file exists, and the default
\* record exactly when both are absent; what it returns is always the whole
\* record of one tier.
C2_FallbackWhole ==
  project_info # <<>> =>
    /\ project_info \in {config_file.json, summary_file.json, <<DefaultInfo(project_name)>>}
    /\ (~config_file.exists /\ summary_file.exists) <=> project_info = summary_file.json
    /\ (~config_file.exists /\ ~summary_file.exists)
         <=> project_info = <<DefaultInfo(project_name)>>

\* the config is absent and the run used the summary
C2_Witness ==
  /\ pc = "done"
  /\ ~config_file.exists
  /\ project_info = <<SUMMARY_FULL>>

\* C3: a config file that exists and is not well-formed ends the run in
\* JSONDecodeError: project_info is never set, the summary is never opened and
\* no later step is taken; the same holds of a summary file that is not
\* well-formed when the config is absent.
C3_MalformedFatal ==
  LET chosen == IF config_file.exists THEN config_file ELSE summary_file
  IN  (chosen.exists /\ chosen.json = <<>>) =>
        /\ project_info = <<>>
        /\ config_file.exists => "summary" \notin handles
        /\ ~took("find_visualizations")
        /\ took("json_load") => (pc = "failed" /\ error = "JSONDecodeError")
        /\ pc # "done"

\* the config is malformed, the summary is usable, and the run has failed
C3_Witness ==
  /\ config_file = Malformed
  /\ summary_file = JsonFile(SUMMARY_FULL)
  /\ pc = "failed"
  /\ error = "JSONDecodeError"
  /\ took("json_load")

\* the run has ended: main returned or an exception left it
ended == pc \in {"done", "returned", "failed"}

\* the text contains one of the 15 recognized placeholder tokens
has_token(text) ==
  \E i \in 1..Len(PLACEHOLDERS) : Contains(text, placeholder(PLACEHOLDERS[i]))

\* C4 as stated: the document generate_html returns contains none of the 15
\* recognized placeholder tokens, whatever the template and the record.
C4_TotalSubstitution == html_content # <<>> => ~has_token(html_content[1])

BRACES == {"{{", "}}", "{", "}"}

brace_free(text) == \A i \in 1..Len(text) : text[i] \notin BRACES

\* every brace of the template text delimits a recognized placeholder token
only_token_braces(text) ==
  LET names == {PLACEHOLDERS[i] : i \in 1..Len(PLACEHOLDERS)}
  IN  \A i \in 1..Len(text) :
        /\ text[i] \notin {"{", "}"}
        /\ text[i] = "{{" => (i + 2 <= Len(text) /\ text[i+1] \in names /\ text[i+2] = "}}")
        /\ text[i] = "}}" => (i >= 3 /\ text[i-2] = "{{" /\ text[i-1] \in names)

\* no string that is substituted holds a brace: the values of the first 14
\* placeholders, and the keys and strings serialized into the last one
brace_free_values ==
  /\ \A i \in 1..(Len(replacements) - 1) : brace_free(replacements[i].value)
  /\ \A i \in 1..Len(viz_data) :
       /\ brace_free(viz_data[i].key)
       /\ brace_free(viz_data[i].value.title)
       /\ brace_free(viz_data[i].value.image)
       /\ brace_free(viz_data[i].value.description)

\* C4 amended: when the template text has braces only as the delimiters of
\* recognized placeholder tokens, and no string of the record and no file or
\* folder name holds a brace, the document generate_html returns contains
\* none of the 15 recognized placeholder tokens.
C4_SubstitutionBraceFree ==
  (just("substitute") /\ only_token_braces(template_file[1]) /\ brace_free_values)
    => ~has_token(html_content[1])

\* a page written from the template with all 15 placeholders, with an image
C4_Witness ==
  /\ pc = "done"
  /\ template_file = <<TEMPLATE_FULL>>
  /\ only_token_braces(template_file[1])
  /\ brace_free_values
  /\ viz_data # <<>>
  /\ ~has_token(dict_get(website.files, output_path))

\* C5: a run that fails leaves website/ exactly as it was before the run, and
\* after any run the output file holds the whole composed document of that run
\* or website/ is as it was.
C5_NoPartialOutput ==
  /\ pc = "failed" => website = website_before
  /\ ended =>
       \/ website = website_before
       \/ /\ html_content # <<>>
          /\ dict_has(website.files, output_path)
          /\ dict_get(website.files, output_path) = html_content[1]

\* the folder of the end-to-end scenario: the two images, no config, no
\* summary, no dashboard, and the visualization data built
C6_Scenario ==
  /\ files = {F_SNOW_PACK, F_RESERVOIR_LEVELS}
  /\ config_file = NoFile
  /\ summary_file = NoFile
  /\ took("generate_visualization_data")

\* C6 as stated: in the scenario the default record is used, the entry keyed
\* "snowpack" has the description of keyword "snowpack" and the entry keyed
\* "reservoirlevels" has the description of keyword "reservoir".
C6_AsStated ==
  C6_Scenario =>
    /\ project_info = <<DefaultInfo(project_name)>>
    /\ dict_has(viz_data, KEY_SNOWPACK)
    /\ dict_get(viz_data, KEY_SNOWPACK).description = DESC_SNOWPACK
    /\ dict_has(viz_data, KEY_RESERVOIRLEVELS)
    /\ dict_get(viz_data, KEY_RESERVOIRLEVELS).description = DESC_RESERVOIR

\* C6 amended: in the scenario the default record is used, the entry keyed
\* "snowpack" has the generic fallback description (the keywords are sought in
\* "snow_pack", which contains none of them) and the entry keyed
\* "reservoirlevels" has the description of keyword "reservoir".
C6_EndToEnd ==
  C6_Scenario =>
    /\ project_info = <<DefaultInfo(project_name)>>
    /\ dict_has(viz_data, KEY_SNOWPACK)
    /\ dict_get(viz_data, KEY_SNOWPACK).description = DESC_DEFAULT
    /\ dict_has(viz_data, KEY_RESERVOIRLEVELS)
    /\ dict_get(viz_data, KEY_RESERVOIRLEVELS).description = DESC_RESERVOIR

\* the scenario has run to its end and the page is written
C6_Witness ==
  /\ C6_Scenario
  /\ pc = "done"
  /\ Len(viz_data) = 2

\* the name of an image file without its extension
stem_of(f) ==
  LET exts == {IMAGE_EXTENSIONS[i] : i \in 1..Len(IMAGE_EXTENSIONS)}
      ext  == CHOOSE e \in exts : EndsWith(f, e)
  IN  SubSeq(f, 1, Len(f) - Len(ext))

SEPARATORS == {"_", "-", " "}

\* the six orders of the three separators
SEPARATOR_ORDERS == Listings(SEPARATORS)

\* the three separators removed from s one after the other, in the given order
strip_in_order(s, order) ==
  replace(replace(replace(s, <<order[1]>>, <<>>), <<order[2]>>, <<>>), <<order[3]>>, <<>>)

\* C7: the key of every image is its stem lowercased with every "_", "-" and
\* " " removed, whichever of the six orders the three are removed in; it is
\* the key of the image's entry in viz_data and of its card, and
\* "Water_Supply-2024" gives "watersupply2024".
C7_KeyNormalization ==
  just("generate_visualization_data") =>
    LET cards == viz_cards(images, project_folder)
    IN  \A i \in 1..Len(images) :
          LET stem    == stem_of(basename(images[i]))
              lowered == lower(stem)
              key     == SelectSeq(lowered, LAMBDA c : c \notin SEPARATORS)
          IN  /\ dict_has(viz_data, key)
              /\ cards[i].viz_key = key
              /\ \A order \in SEPARATOR_ORDERS : strip_in_order(lowered, order) = key
              /\ key = lower(SelectSeq(stem, LAMBDA c : c \notin SEPARATORS))
              /\ basename(images[i]) = F_WATER_SUPPLY => key = KEY_WATERSUPPLY2024

\* Water_Supply-2024.png is in the folder and its entry is keyed "watersupply2024"
C7_Witness ==
  /\ pc = "done"
  /\ F_WATER_SUPPLY \in files
  /\ dict_has(viz_data, KEY_WATERSUPPLY2024)

\* C8 as stated: for every image whose key is in visualization_descriptions,
\* the entry of viz_data has the custom title and description, and the custom
\* title is also the title of the image's card in the rendered visualizations.
C8_CustomOverride ==
  took("replacements") /\ error = "" =>
    \A i \in 1..Len(images) :
      LET key    == viz_key_of(stem_of(basename(images[i])))
          custom == custom_descriptions_of(project_info[1])
      IN  dict_has(custom, key) =>
            /\ dict_get(viz_data, key).title = dict_get(custom, key).title
            /\ dict_get(viz_data, key).description = dict_get(custom, key).description
            /\ viz_cards(images, project_folder)[i].title = dict_get(custom, key).title
            /\ Contains(dict_get(replacements, placeholder("VISUALIZATIONS")),
                        dict_get(custom, key).title)

\* C8 amended: for every image whose key is in visualization_descriptions,
\* the entry of viz_data has the custom title and description verbatim; the
\* card rendered for the image keeps the title derived from the file name.
C8_CustomOverrideInData ==
  just("replacements") /\ error = "" =>
    LET custom == custom_descriptions_of(project_info[1])
        cards  == viz_cards(images, project_folder)
        html   == dict_get(replacements, placeholder("VISUALIZATIONS"))
    IN  \A i \in 1..Len(images) :
          LET stem == stem_of(basename(images[i]))
              key  == viz_key_of(stem)
          IN  dict_has(custom, key) =>
                /\ dict_get(viz_data, key).title = dict_get(custom, key).title
                /\ dict_get(viz_data, key).description = dict_get(custom, key).description
                /\ cards[i].title = title_of(stem)
                /\ Contains(html, <<"\" alt=\"">> \o title_of(stem))

\* Snow_Pack.png has a custom entry; the data carry the custom title and the
\* card the derived one
C8_Witness ==
  /\ pc = "done"
  /\ config_file = JsonFile(CONFIG_FULL)
  /\ F_SNOW_PACK \in files
  /\ dict_get(viz_data, KEY_SNOWPACK).title = <<"Custom Snow Title">>
  /\ dict_get(viz_data, KEY_SNOWPACK).description = <<"<p>Custom snow text</p>">>
  /\ \E i \in 1..Len(images) :
       viz_cards(images, project_folder)[i].title = <<"S", "n", "o", "w", " ", "P", "a", "c", "k">>

KEYWORDS ==
  <<<<"s", "n", "o", "w", "p", "a", "c", "k">>,
    <<"r", "e", "s", "e", "r", "v", "o", "i", "r">>,
    <<"d", "e", "l", "i", "v", "e", "r", "i", "e", "s">>,
    <<"c", "o", "n", "s", "e", "r", "v", "a", "t", "i", "o", "n">>,
    <<"g", "p", "c", "d">>>>

KEYWORD_DESCRIPTIONS ==
  <<DESC_SNOWPACK, DESC_RESERVOIR, DESC_DELIVERIES, DESC_CONSERVATION, DESC_GPCD>>

\* the description of the first keyword, in the fixed order, that occurs in
\* the lowercased file name; the generic one if none occurs
keyword_description(filename) ==
  LET lowered == lower(filename)
      hits    == {k \in 1..Len(KEYWORDS) : Contains(lowered, KEYWORDS[k])}
  IN  IF hits = {} THEN DESC_DEFAULT
      ELSE KEYWORD_DESCRIPTIONS[CHOOSE k \in hits : \A j \in hits : k <= j]

\* the descriptions the keyword rule can give
KEYWORD_OUTCOMES == {KEYWORD_DESCRIPTIONS[k] : k \in 1..5} \cup {DESC_DEFAULT}

\* C9: an image without a custom entry is described by the first of the
\* keywords snowpack, reservoir, deliveries, conservation, gpcd that occurs in
\* its lowercased file name, and by the generic description if none occurs.
C9_KeywordDescription ==
  just("generate_visualization_data") =>
    LET custom == custom_descriptions_of(project_info[1])
        keys   == [i \in 1..Len(images) |-> viz_key_of(stem_of(basename(images[i])))]
    IN  \A i \in 1..Len(images) :
          (~dict_has(custom, keys[i]) /\ \A j \in (i+1)..Len(images) : keys[j] # keys[i]) =>
            /\ dict_has(viz_data, keys[i])
            /\ dict_get(viz_data, keys[i]).description = keyword_description(basename(images[i]))
            /\ dict_get(viz_data, keys[i]).description \in KEYWORD_OUTCOMES

\* "gpcd conservation.gif" holds two keywords and gets the description of the
\* one that is earlier in the fixed order; another image gets the generic one
C9_Witness ==
  /\ pc = "done"
  /\ files = {F_GPCD_CONSERVATION, F_WATER_SUPPLY}
  /\ dict_get(viz_data, viz_key_of(stem_of(F_GPCD_CONSERVATION))).description
       = DESC_CONSERVATION
  /\ dict_get(viz_data, KEY_WATERSUPPLY2024).description = DESC_DEFAULT

\* no entry of the folder matches *dashboard*.html
no_dashboard_file ==
  \A f \in files :
    ~(Contains(f, <<"d", "a", "s", "h", "b", "o", "a", "r", "d">>)
        /\ EndsWith(f, <<".", "h", "t", "m", "l">>))

\* C10: when no entry of the folder matches *dashboard*.html, find_dashboard
\* returns None without an error, the value of {{DASHBOARD_LINK}} is "#", and
\* "#" stands in the document where the template had {{DASHBOARD_LINK}}.
C10_DashboardAbsent ==
  no_dashboard_file =>
    /\ dashboard = <<>>
    /\ (stages # <<>> /\ stages[Len(stages)] = "find_dashboard") =>
         (error = "" /\ pc = "generate_visualization_data")
    /\ replacements # <<>> =>
         dict_get(replacements, placeholder("DASHBOARD_LINK")) = <<"#">>
    /\ html_content # <<>> =>
         /\ ~Contains(html_content[1], placeholder("DASHBOARD_LINK"))
         /\ Contains(template_file[1],
                     <<"<a href=\"">> \o placeholder("DASHBOARD_LINK") \o <<"\">">>)
              => Contains(html_content[1], <<"<a href=\"", "#", "\">">>)

\* a page written for a folder with images and no dashboard, from a template
\* that has {{DASHBOARD_LINK}}
C10_Witness ==
  /\ pc = "done"
  /\ no_dashboard_file
  /\ files # {}
  /\ template_file = <<TEMPLATE_SPARSE>>
  /\ Contains(dict_get(website.files, output_path), <<"<a href=\"", "#", "\">">>)

\* the atom that opens a card, up to the argument of expandVisualization
CARD_OPEN == "\n                <div class=\"viz-card\" onclick=\"expandVisualization('"

\* the atom between the argument of expandVisualization and the src of the img
CARD_SRC == "')\">\n                    <img src=\""

\* the positions of the atom a in text, ascending
positions(text, a) ==
  LET at == {i \in 1..Len(text) : text[i] = a}
  IN  [n \in 1..Cardinality(at) |->
         CHOOSE i \in at : Cardinality({j \in at : j < i}) = n - 1]

\* C11: the visualizations fragment has exactly one card per discovered image,
\* in the order of the sorted list of images; the argument of
\* expandVisualization of the i-th card is the normalized key of the i-th
\* image's file name, and its img is that image.
C11_CardsPerImage ==
  just("replacements") /\ error = "" =>
    LET html   == dict_get(replacements, placeholder("VISUALIZATIONS"))
        opens  == positions(html, CARD_OPEN)
    IN  /\ Len(opens) = Len(images)
        /\ Len(positions(html, CARD_SRC)) = Len(images)
        /\ \A i \in 1..Len(images) :
             LET filename == basename(images[i])
                 key      == SelectSeq(lower(stem_of(filename)), LAMBDA c : c \notin SEPARATORS)
                 wired    == <<CARD_OPEN>> \o key \o <<CARD_SRC, ".", ".", "/">> \o images[i]
                                \o <<"\" alt=\"">>
             IN  /\ opens[i] + Len(wired) - 1 <= Len(html)
                 /\ SubSeq(html, opens[i], opens[i] + Len(wired) - 1) = wired
        /\ \A i \in 1..(Len(images) - 1) : str_less(images[i], images[i+1])

\* two images with different keys: the card of Snow_Pack.png comes before the
\* card of reservoir-levels.png in the document
C11_Witness ==
  /\ just("substitute")
  /\ files = {F_SNOW_PACK, F_RESERVOIR_LEVELS}
  /\ Len(images) = 2
  /\ LET page == html_content[1]
         opens == positions(page, CARD_OPEN)
     IN  /\ Len(opens) = 2
         /\ SubSeq(page, opens[1] + 1, opens[1] + Len(KEY_SNOWPACK)) = KEY_SNOWPACK
         /\ SubSeq(page, opens[2] + 1, opens[2] + Len(KEY_RESERVOIRLEVELS)) = KEY_RESERVOIRLEVELS

\* a < b for two paths, by the first position at which they differ
path_before(a, b) ==
  \E k \in 1..Len(b) :
    /\ \A j \in 1..(k - 1) : j <= Len(a) /\ a[j] = b[j]
    /\ k > Len(a) \/ ord(a[k]) < ord(b[k])

\* the paths of images are strictly ascending: sorted, and each path once
ascending_paths(imgs) == \A i \in 1..(Len(imgs) - 1) : path_before(imgs[i], imgs[i+1])

\* the scan has just returned and nothing but images has changed
scan_without_effect ==
  /\ website = website_before
  /\ handles = {}
  /\ error = ""
  /\ stdout = <<>>
  /\ dashboard = <<>> /\ viz_data = <<>> /\ replacements = <<>> /\ html_content = <<>>

\* C12 as stated: find_visualizations returns exactly the files of the folder
\* whose extension (os.path.splitext) is one of the five, each once, ascending
\* by full path, without side effects.
C12_AllByExtension ==
  just("find_visualizations") =>
    LET exts     == {IMAGE_EXTENSIONS[i] : i \in 1..Len(IMAGE_EXTENSIONS)}
        expected == {path_join(project_folder, f) : f \in {g \in files : splitext1(g) \in exts}}
    IN  /\ {images[i] : i \in 1..Len(images)} = expected
        /\ ascending_paths(images)
        /\ scan_without_effect

\* C12 amended: find_visualizations returns exactly the files of the folder
\* whose name does not start with "." and ends in one of .png, .jpg, .jpeg,
\* .gif, .svg, each once, ascending by full path whatever their extensions,
\* without side effects.
C12_VisibleByExtension ==
  just("find_visualizations") =>
    LET exts     == {IMAGE_EXTENSIONS[i] : i \in 1..Len(IMAGE_EXTENSIONS)}
        visible  == {g \in files : g[1] # "." /\ \E e \in exts : EndsWith(g, e)}
        expected == {path_join(project_folder, f) : f \in visible}
    IN  /\ {images[i] : i \in 1..Len(images)} = expected
        /\ Len(images) = Cardinality(expected)
        /\ ascending_paths(images)
        /\ scan_without_effect

\* a .gif and a .png: the .gif is globbed after the .png and returned before it
C12_Witness ==
  /\ just("find_visualizations")
  /\ files = {F_GPCD_CONSERVATION, F_RESERVOIR_LEVELS}
  /\ images = <<path_join(FOLDER, F_GPCD_CONSERVATION), path_join(FOLDER, F_RESERVOIR_LEVELS)>>

\* the project name lowercased, each space turned into a hyphen
slug_of(name) ==
  [i \in 1..Len(name) |-> IF name[i] = " " THEN "-" ELSE lower_char(name[i])]

\* website/<slug>-project.html
page_path_of(name) ==
  <<"w", "e", "b", "s", "i", "t", "e", "/">> \o slug_of(name)
    \o <<"-", "p", "r", "o", "j", "e", "c", "t", ".", "h", "t", "m", "l">>

\* C13: the path save_project_page returns, and the one file it writes, is
\* website/<slug>-project.html with slug the project name given on the command
\* line lowercased and its spaces turned into hyphens; the folder and the
\* metadata have no part in it.
C13_OutputPath ==
  /\ just("main") /\ pc = "load_template" => output_path = page_path_of(argv[2])
  /\ pc = "done" =>
       LET path == page_path_of(argv[2])
       IN  /\ returned = <<path>>
           /\ dict_has(website.files, path)
           /\ dict_get(website.files, path) = html_content[1]
           /\ \A i \in 1..Len(website.files) :
                website.files[i].key # path =>
                  /\ dict_has(website_before.files, website.files[i].key)
                  /\ dict_get(website_before.files, website.files[i].key) = website.files[i].value
           /\ argv[2] = NAME_MY_PROJ => path = PATH_MY_PROJ
           /\ argv[2] = NAME_Q3 => path = PATH_Q3

\* the page of "Q3 Water-Use b" is written over the one of an earlier run, at
\* website/q3-water-use-b-project.html; the page of the other project stays
C13_Witness ==
  /\ pc = "done"
  /\ argv[2] = NAME_Q3
  /\ returned = <<PATH_Q3>>
  /\ website_before = OLD_SITE
  /\ dict_get(website.files, PATH_Q3) = html_content[1]
  /\ dict_get(website.files, PATH_Q3) # OLD_PAGE
  /\ dict_get(website.files, PATH_MY_PROJ) = OLD_PAGE

\* nothing was read and nothing written: main is the only step taken, no file
\* is or was open, and no variable a read or a write fills has a value
nothing_read_or_written ==
  /\ stages = <<"main">>
  /\ handles = {}
  /\ website = website_before
  /\ template = <<>> /\ project_info = <<>> /\ images = <<>> /\ dashboard = <<>>
  /\ html_content = <<>> /\ returned = <<>>
  /\ error = ""

\* C14: a step of generation is taken only when two arguments were given and
\* the project folder exists; with fewer arguments main prints the usage and
\* returns, with a folder that does not exist it prints the error message and
\* returns, and in both cases nothing was read or written.
C14_CliGuard ==
  /\ Len(stages) > 1 => (Len(argv) >= 3 /\ folder_exists)
  /\ (stages # <<>> /\ Len(argv) < 3) =>
       (pc = "returned" /\ stdout = <<"Usage", "Example">> /\ nothing_read_or_written)
  /\ (stages # <<>> /\ Len(argv) >= 3 /\ ~folder_exists) =>
       (pc = "returned" /\ stdout = <<"Project folder not found">> /\ nothing_read_or_written)
  /\ (stages # <<>> /\ Len(argv) >= 3 /\ folder_exists) => pc # "returned"

\* two arguments, a template and website/ at hand, but no project folder
C14_Witness ==
  /\ pc = "returned"
  /\ Len(argv) = 3
  /\ ~folder_exists
  /\ template_file # <<>>
  /\ website.exists
  /\ stdout = <<"Project folder not found">>

\* the keys generate_html looks up in the record
REQUIRED_KEYS ==
  {"title", "description", "tech_stack", "insights", "summary", "key_insights",
   "technical_implementation", "business_value", "project_links"}

\* the repeatable sections: the sequence each is rendered from, and its placeholder
sections_of(info, imgs) ==
  <<[input |-> info.tech_stack,               name |-> "TECH_STACK"],
    [input |-> info.insights,                 name |-> "INSIGHT_CARDS"],
    [input |-> info.key_insights,             name |-> "KEY_INSIGHTS"],
    [input |-> info.technical_implementation, name |-> "TECHNICAL_IMPLEMENTATION"],
    [input |-> info.business_value.items,     name |-> "BUSINESS_VALUE_ITEMS"],
    [input |-> info.project_links,            name |-> "PROJECT_LINKS"],
    [input |-> imgs,                          name |-> "VISUALIZATIONS"]>>

\* C15: for each of the seven repeatable sections, an empty input sequence is
\* rendered to the empty string and the run does not fail on it; the value
\* substituted for the section's placeholder is the empty string, and the
\* composed document has no occurrence of that placeholder.
C15_EmptySections ==
  /\ (just("replacements") /\ REQUIRED_KEYS \subseteq DOMAIN project_info[1]) =>
       /\ error = "" /\ pc = "substitute"
       /\ \A k \in 1..7 :
            LET section == sections_of(project_info[1], images)[k]
            IN  section.input = <<>> =>
                  dict_get(replacements, placeholder(section.name)) = <<>>
  /\ just("substitute") =>
       /\ error = "" /\ pc = "save_open"
       /\ \A k \in 1..7 :
            LET section == sections_of(project_info[1], images)[k]
            IN  section.input = <<>> =>
                  ~Contains(html_content[1], placeholder(section.name))

\* a record whose lists are all empty and a folder without images, composed
\* from the template that has every placeholder: the document is returned, and
\* the text around each empty section closes up
C15_Witness ==
  /\ just("substitute")
  /\ project_info = <<CONFIG_BARE>>
  /\ images = <<>>
  /\ template_file = <<TEMPLATE_FULL>>
  /\ LET page == html_content[1]
     IN  /\ Contains(page, <<"</p><div class=\"tech\">", "</div><div class=\"insights\">",
                             "</div><p>">>)
         /\ Contains(page, <<"</p><div class=\"key\">", "</div><div class=\"viz\">", "</div><h2>">>)
         /\ Contains(page, <<"</h2><div class=\"value\">", "</div><div class=\"links\">",
                             "</div><script>const visualizationData = ">>)

\* every required field of the record has a value
complete(info) ==
  /\ REQUIRED_KEYS \subseteq DOMAIN info
  /\ {"title", "items"} \subseteq DOMAIN info.business_value

\* C16: the record extract_project_info returns has every required field
\* (title, description, tech_stack, insights, summary, key_insights,
\* technical_implementation, business_value with title and items,
\* project_links), whichever tier supplied it, and no fragment builder runs on
\* a record that lacks one.
C16_Completeness ==
  /\ project_info # <<>> => complete(project_info[1])
  /\ rendered # {} => complete(project_info[1])

\* C17: when the template file is missing, the run ends in load_template with
\* the error of open() raised out of main; no metadata is read, no document
\* is composed, and website/ is as it was before the run.
C17_MissingTemplateFatal ==
  (template_file = <<>> /\ Len(stages) >= 2) =>
    /\ pc = "failed"
    /\ error = "FileNotFoundError"
    /\ stages = <<"main", "load_template">>
    /\ template = <<>> /\ project_info = <<>> /\ replacements = <<>>
    /\ html_content = <<>>
    /\ returned = <<>> /\ stdout = <<>>
    /\ handles = {}
    /\ website = website_before

\* no template, although the folder has a full config and website/ has pages
C17_Witness ==
  /\ pc = "failed"
  /\ template_file = <<>>
  /\ error = "FileNotFoundError"
  /\ config_file = JsonFile(CONFIG_FULL)
  /\ files # {}
  /\ website = OLD_SITE

\* the normalized key of the i-th image
image_key(i) == SelectSeq(lower(stem_of(basename(images[i]))), LAMBDA c : c \notin SEPARATORS)

\* C18: when two images have the same normalized key, viz_data has one entry
\* for the key, and its title, image and description are those of the image
\* that is later in the sorted list; the step raises nothing and prints nothing.
C18_LastWriteWins ==
  just("generate_visualization_data") =>
    /\ error = "" /\ stdout = <<>> /\ pc = "replacements"
    /\ Len(viz_data) = Cardinality({image_key(i) : i \in 1..Len(images)})
    /\ \A i \in 1..Len(images) : \A j \in (i+1)..Len(images) :
         (image_key(i) = image_key(j) /\ \A k \in (j+1)..Len(images) : image_key(k) # image_key(j)) =>
           LET custom == custom_descriptions_of(project_info[1])
               stem   == stem_of(basename(images[j]))
               entry  == dict_get(viz_data, image_key(j))
           IN  /\ Cardinality({n \in 1..Len(viz_data) : viz_data[n].key = image_key(j)}) = 1
               /\ entry.image = <<".", ".", "/">> \o images[j]
               /\ entry.image # <<".", ".", "/">> \o images[i]
               /\ entry.title = IF dict_has(custom, image_key(j))
                                THEN dict_get(custom, image_key(j)).title
                                ELSE title(replace(stem, <<"_">>, <<" ">>))
               /\ entry.description = IF dict_has(custom, image_key(j))
                                      THEN dict_get(custom, image_key(j)).description
                                      ELSE keyword_description(stem)

\* Snow_Pack.png and snow-pack.jpg both have the key "snowpack"; the entry is
\* that of snow-pack.jpg, the later of the two, and the document is composed
C18_Witness ==
  /\ just("substitute")
  /\ files = {F_SNOW_PACK, F_SNOW_PACK_JPG}
  /\ Len(images) = 2
  /\ Len(viz_data) = 1
  /\ custom_descriptions_of(project_info[1]) = <<>>
  /\ dict_get(viz_data, KEY_SNOWPACK).image = <<".", ".", "/">> \o path_join(FOLDER, F_SNOW_PACK_JPG)
  /\ dict_get(viz_data, KEY_SNOWPACK).title = <<"S", "n", "o", "w", "-", "P", "a", "c", "k">>

\* the dict items taken in another order
permute(items, order) == [i \in 1..Len(order) |-> items[order[i]]]

\* the order of generate_html reversed
REVERSED == [i \in 1..15 |-> 16 - i]

\* the order of generate_html with the a-th and the b-th placeholder exchanged
exchanged(a, b) == [i \in 1..15 |-> IF i = a THEN b ELSE IF i = b THEN a ELSE i]

\* the order of generate_html started k placeholders later
rotated(k) == [i \in 1..15 |-> ((i + k - 1) % 15) + 1]

FIXED_ORDERS ==
  {REVERSED} \cup {rotated(k) : k \in 1..14}
    \cup {exchanged(a, b) : a, b \in 1..15}

\* every order of the placeholders the text has, when it has at most four of
\* them, followed by the other placeholders in the order of generate_html
orders_of_present(text) ==
  LET present == {i \in 1..15 : Contains(text, placeholder(PLACEHOLDERS[i]))}
      absent  == SelectSeq([i \in 1..15 |-> i], LAMBDA i : i \notin present)
  IN  IF Cardinality(present) > 4 THEN {}
      ELSE {l \o absent : l \in Listings(present)}

\* the orders the replacements are tried in
orders(text) == FIXED_ORDERS \cup orders_of_present(text)

\* C19 as stated: for every template and every record, the replacements
\* applied in another order give the document generate_html gives.
C19_AnyOrder ==
  just("substitute") =>
    \A order \in orders(template_file[1]) :
      substitute(template_file[1], permute(replacements, order)) = html_content[1]

\* every brace of the text delimits a token {{name}}, of a recognized
\* placeholder or not, and no token is nested in another
separate_tokens(text) ==
  \A i \in 1..Len(text) :
    /\ text[i] \notin {"{", "}"}
    /\ text[i] = "{{" =>
         /\ i + 1 <= Len(text)
         /\ \/ text[i+1] = "}}"
            \/ text[i+1] \notin BRACES /\ i + 2 <= Len(text) /\ text[i+2] = "}}"
    /\ text[i] = "}}" =>
         \/ i >= 2 /\ text[i-1] = "{{"
         \/ i >= 3 /\ text[i-2] = "{{" /\ text[i-1] \notin BRACES

\* C19 amended: when every brace of the template delimits a token that is
\* not nested in another and no substituted string holds a brace, the
\* replacements applied in another order (reversed, rotated, any two of them
\* exchanged, and every order of the placeholders of a template that has at
\* most four) give the document generate_html gives.
C19_AnyOrderBraceFree ==
  (just("substitute") /\ separate_tokens(template_file[1]) /\ brace_free_values) =>
    \A order \in orders(template_file[1]) :
      substitute(template_file[1], permute(replacements, order)) = html_content[1]

\* a page composed from the template with all 15 placeholders, with images,
\* is the same in the reversed order
C19_Witness ==
  /\ just("substitute")
  /\ template_file = <<TEMPLATE_FULL>>
  /\ separate_tokens(template_file[1])
  /\ brace_free_values
  /\ viz_data # <<>>
  /\ substitute(template_file[1], permute(replacements, REVERSED))
       = html_content[1]

\* the index of the placeholder whose token is at position p of text, 0 if none is
token_at(text, p) ==
  LET hits == {k \in 1..Len(replacements) :
                 /\ p + 2 <= Len(text)
                 /\ SubSeq(text, p, p + 2) = replacements[k].key}
  IN  IF hits = {} THEN 0 ELSE CHOOSE k \in hits : TRUE

\* what the k-th value has become at the end of the loop: the replacements
\* after the k-th have acted on it
expanded(k) ==
  substitute(replacements[k].value, SubSeq(replacements, k + 1, Len(replacements)))

\* the text from position p on, each token of a recognized placeholder
\* replaced and every other atom kept as it is
RECURSIVE framed(_, _)
framed(text, p) ==
  IF p > Len(text) THEN <<>>
  ELSE LET k == token_at(text, p)
       IN  IF k # 0 THEN expanded(k) \o framed(text, p + 3)
           ELSE <<text[p]>> \o framed(text, p + 1)

resolved_info ==
  LET tier == chosen_tier(config_file, summary_file)
  IN  IF tier = "default" THEN DefaultInfo(argv[2]) ELSE tier_file(tier).json[1]

\* text is the blocks one after the other, first block first, and nothing else
RECURSIVE blocks_in_order(_, _)
blocks_in_order(text, blocks) ==
  IF blocks = <<>> THEN text = <<>>
  ELSE /\ StartsWith(text, blocks[1])
       /\ blocks_in_order(SubSeq(text, Len(blocks[1]) + 1, Len(text)), Tail(blocks))

\* the atoms of a set of strings
atoms_of(strings) == UNION {{s[i] : i \in DOMAIN s} : s \in strings}

\* the six fragment builders: placeholder, input sequence, the block of each
\* entry and the strings each entry holds
fragments_of(info) ==
  <<[name |-> "TECH_STACK", input |-> info.tech_stack,
     blocks |-> [i \in 1..Len(info.tech_stack) |-> tech_item(info.tech_stack[i])],
     fields |-> [i \in 1..Len(info.tech_stack) |-> {info.tech_stack[i]}]],
    [name |-> "INSIGHT_CARDS", input |-> info.insights,
     blocks |-> [i \in 1..Len(info.insights) |-> insight_card(info.insights[i])],
     fields |-> [i \in 1..Len(info.insights) |->
                   {info.insights[i].value, info.insights[i].label}]],
    [name |-> "KEY_INSIGHTS", input |-> info.key_insights,
     blocks |-> [i \in 1..Len(info.key_insights) |-> key_insight_card(info.key_insights[i])],
     fields |-> [i \in 1..Len(info.key_insights) |->
                   {info.key_insights[i].icon, info.key_insights[i].title,
                    info.key_insights[i].description}]],
    [name |-> "TECHNICAL_IMPLEMENTATION", input |-> info.technical_implementation,
     blocks |-> [i \in 1..Len(info.technical_implementation) |->
                   technical_card(info.technical_implementation[i])],
     fields |-> [i \in 1..Len(info.technical_implementation) |->
                   {info.technical_implementation[i].title,
                    info.technical_implementation[i].description}]],
    [name |-> "BUSINESS_VALUE_ITEMS", input |-> info.business_value.items,
     blocks |-> [i \in 1..Len(info.business_value.items) |->
                   business_item(info.business_value.items[i])],
     fields |-> [i \in 1..Len(info.business_value.items) |->
                   {info.business_value.items[i].icon, info.business_value.items[i].title,
                    info.business_value.items[i].description}]],
    [name |-> "PROJECT_LINKS", input |-> info.project_links,
     blocks |-> [i \in 1..Len(info.project_links) |-> project_link(info.project_links[i])],
     fields |-> [i \in 1..Len(info.project_links) |->
                   {info.project_links[i].url, info.project_links[i].icon,
                    info.project_links[i].text, link_style(info.project_links[i])}]]>>

\* C21: for tech stack, insight cards, key-insight cards, technical-implementation
\* cards, business-value items and project links, the rendered fragment is the
\* concatenation of exactly one block per input entry in the input's order, the
\* block of an entry holding every string of that entry and no string of
\* another entry that the entry does not hold itself; the record is the same
\* after the rendering as the one the tier gave.
C21_BuildersPreserveOrder ==
  (just("replacements") /\ error = "") =>
    LET info == project_info[1]
    IN  /\ info = resolved_info
        /\ \A k \in 1..6 :
             LET fragment == fragments_of(info)[k]
                 value    == dict_get(replacements, placeholder(fragment.name))
             IN  /\ Len(fragment.blocks) = Len(fragment.input)
                 /\ blocks_in_order(value, fragment.blocks)
                 /\ \A i \in 1..Len(fragment.input) :
                      LET block == atoms_of({fragment.blocks[i]})
                          own   == atoms_of(fragment.fields[i])
                      IN  /\ own \subseteq block
                          /\ \A j \in 1..Len(fragment.input) :
                               (atoms_of(fragment.fields[j]) \cap block) \subseteq own

\* the record of project_config.json with two technology names, two technical
\* cards and two links, the second link alone with a style: the cards of ETL and
\* Model and the anchors of Report and Code are rendered in that order
C21_Witness ==
  /\ just("replacements") /\ error = ""
  /\ project_info[1] = CONFIG_FULL
  /\ dict_get(replacements, placeholder("TECH_STACK"))
       = <<"<span class=\"tech-item\">", "R", "</span>",
           "<span class=\"tech-item\">", "SQL", "</span>">>
  /\ LET cards == dict_get(replacements, placeholder("TECHNICAL_IMPLEMENTATION"))
         links == dict_get(replacements, placeholder("PROJECT_LINKS"))
     IN  /\ Len(positions(cards, "ETL")) = 1 /\ Len(positions(cards, "Model")) = 1
         /\ positions(cards, "ETL")[1] < positions(cards, "Model")[1]
         /\ Len(positions(links, "report.pdf")) = 1 /\ Len(positions(links, "flow.py")) = 1
         /\ positions(links, "report.pdf")[1] < positions(links, "flow.py")[1]
         /\ Len(positions(links, "color: red;")) = 1

\* C22: when the record of the chosen metadata file has no
\* visualization_descriptions, the keyer does not fail and gives every image
\* the title derived from its file name and the description of the keyword
\* rule, whatever descriptions another tier holds.
C22_OptionalFieldDefault ==
  (/\ just("generate_visualization_data")
   /\ chosen_tier(config_file, summary_file) # "default"
   /\ "visualization_descriptions" \notin DOMAIN project_info[1]) =>
    /\ error = "" /\ pc = "replacements"
    /\ \A i \in 1..Len(images) :
         LET stem == stem_of(basename(images[i]))
             key  == viz_key_of(stem)
         IN  /\ dict_has(viz_data, key)
             /\ (\A j \in (i+1)..Len(images) : viz_key_of(stem_of(basename(images[j]))) # key) =>
                  /\ dict_get(viz_data, key).title = title_of(stem)
                  /\ dict_get(viz_data, key).description
                       = keyword_description(basename(images[i]))
    /\ \A e \in 1..Len(viz_data) :
         \E i \in 1..Len(images) : viz_data[e].key = viz_key_of(stem_of(basename(images[i])))

\* project_config.json lacks the field while analysis_summary.json has custom
\* texts for snowpack and reservoirlevels: both images keep their derived
\* titles, Snow_Pack with the generic description (its name does not hold
\* "snowpack") and reservoir-levels with the one of its keyword
C22_Witness ==
  /\ just("generate_visualization_data") /\ error = ""
  /\ config_file = JsonFile(CONFIG_BARE)
  /\ summary_file = JsonFile(SUMMARY_FULL)
  /\ files = {F_SNOW_PACK, F_RESERVOIR_LEVELS}
  /\ dict_get(viz_data, KEY_SNOWPACK).title = <<"S", "n", "o", "w", " ", "P", "a", "c", "k">>
  /\ dict_get(viz_data, KEY_SNOWPACK).description = DESC_DEFAULT
  /\ dict_get(viz_data, KEY_RESERVOIRLEVELS).description = DESC_RESERVOIR

\* the file that is open inside the with block the run is in, if it is in one
open_in_block ==
  CASE pc = "load_template_read" -> {"template"}
    [] pc = "json_load"          -> {chosen_tier(config_file, summary_file)}
    [] pc = "save_write"         -> {"output"}
    [] OTHER                     -> {}

\* C23: every file the run opens (template, config, summary, output) is open
\* only inside its with block and closed on every way out of it, a parse
\* failure of the metadata file and a failing write included; when the run has
\* ended, with a result or with an error, no handle is open.
C23_ScopedFileAccess ==
  /\ handles = open_in_block
  /\ ended => handles = {}

\* project_config.json is not well-formed: the run has opened and closed the
\* template, opened the config, failed in json.load, and holds no handle
C23_Witness ==
  /\ pc = "failed" /\ error = "JSONDecodeError"
  /\ took("load_template_read") /\ just("json_load")
  /\ config_file = Malformed
  /\ handles = {}

\* a second run of the script has ended with its page written
second_run_done == pc = "done" /\ earlier_run # <<>>

\* C24 as stated: two runs with the same project name over the same unchanged
\* project folder and template produce the same output document and the same
\* visualization-data map.
C24_Determinism ==
  second_run_done =>
    /\ html_content[1] = earlier_run[1].html_content
    /\ viz_data = earlier_run[1].viz_data

\* C24 amended: the two runs produce the same visualization-data map and
\* return the same path; when the listing of the folder gave both runs the same
\* first match of *dashboard*.html, they produce the same document and leave
\* website/ the same; the document of the later run does not depend on the
\* page the earlier run left at the output path.
C24_DeterminismGivenDashboard ==
  second_run_done =>
    /\ viz_data = earlier_run[1].viz_data
    /\ returned[1] = earlier_run[1].returned
    /\ website_before = earlier_run[1].website
    /\ dashboard = earlier_run[1].dashboard =>
         /\ html_content[1] = earlier_run[1].html_content
         /\ website = earlier_run[1].website

\* two runs over a folder with two images and no dashboard, the second one
\* finding the page of the first at its output path: same data with both
\* keys, same document
C24_Witness ==
  /\ second_run_done
  /\ files = {F_SNOW_PACK, F_RESERVOIR_LEVELS}
  /\ dict_has(website_before.files, PATH_MY_PROJ)
  /\ dict_get(website_before.files, PATH_MY_PROJ) = html_content[1]
  /\ dict_keys(viz_data) = dict_keys(earlier_run[1].viz_data)
  /\ Len(viz_data) = 2

\* the files of website/ other than the output page are those of before the run
others_as_before ==
  /\ \A i \in 1..Len(website.files) :
       website.files[i].key # output_path =>
         /\ dict_has(website_before.files, website.files[i].key)
         /\ dict_get(website_before.files, website.files[i].key) = website.files[i].value
  /\ \A i \in 1..Len(website_before.files) :
       dict_has(website.files, website_before.files[i].key)

\* C25: the output file is opened for writing whether or not it exists and
\* whatever it holds; after a successful run its content is exactly the
\* document the run composed, save_project_page has returned the output path,
\* and website/ has no other new or changed file: the prior content is kept
\* nowhere.
C25_UnconditionalOverwrite ==
  /\ (just("save_open") /\ website_before.exists) =>
       /\ error = "" /\ pc = "save_write"
       /\ dict_get(website.files, output_path) = <<>>
       /\ others_as_before
  /\ pc = "done" =>
       /\ dict_get(website.files, output_path) = html_content[1]
       /\ returned = <<output_path>>
       /\ others_as_before
       /\ Len(website.files) = Len(website_before.files)
                                 + (IF dict_has(website_before.files, output_path) THEN 0 ELSE 1)

\* the page of "My Proj" exists with the text of an earlier run: after the run
\* it holds the new document, website/ still has two files, and the old text
\* is left only in the page of the other project
C25_Witness ==
  /\ pc = "done"
  /\ argv[2] = NAME_MY_PROJ
  /\ website_before = OLD_SITE
  /\ dict_get(website_before.files, output_path) = OLD_PAGE
  /\ dict_get(website.files, output_path) = html_content[1]
  /\ html_content[1] # OLD_PAGE
  /\ Len(website.files) = 2
  /\ {i \in 1..2 : website.files[i].value = OLD_PAGE} = {2}

\* the title of a stem read character by character: "_" becomes a space, a
\* letter is upper case when it starts a word and lower case inside one; a word
\* is ended by a space when by_space, by any character that is no letter otherwise
RECURSIVE title_by_words(_, _, _)
title_by_words(stem, in_word, by_space) ==
  IF stem = <<>> THEN <<>>
  ELSE LET c == IF stem[1] = "_" THEN " " ELSE stem[1]
       IN  <<IF in_word THEN lower_char(c) ELSE upper_char(c)>>
             \o title_by_words(Tail(stem), IF by_space THEN c # " " ELSE IsCased(c), by_space)

\* what follows alt="{title} in the card of an image
ALT_CLOSE == "\">\n                    <div class=\"viz-card-content\">\n                        <h3>"

\* the titles derived for the images are those of title_by_words: in the data
\* for an image without custom entry whose key no later image has, on the card
\* for every image
derived_titles_are(by_space) ==
  /\ just("generate_visualization_data") =>
       LET custom == custom_descriptions_of(project_info[1])
           keys   == [i \in 1..Len(images) |-> viz_key_of(stem_of(basename(images[i])))]
       IN  \A i \in 1..Len(images) :
             (~dict_has(custom, keys[i]) /\ \A j \in (i+1)..Len(images) : keys[j] # keys[i]) =>
               dict_get(viz_data, keys[i]).title
                 = title_by_words(stem_of(basename(images[i])), FALSE, by_space)
  /\ (just("replacements") /\ error = "") =>
       LET html == dict_get(replacements, placeholder("VISUALIZATIONS"))
           alts == positions(html, "\" alt=\"")
       IN  /\ Len(alts) = Len(images)
           /\ \A i \in 1..Len(images) :
                LET expected == title_by_words(stem_of(basename(images[i])), FALSE, by_space)
                IN  SubSeq(html, alts[i] + 1, alts[i] + Len(expected) + 1)
                      = expected \o <<ALT_CLOSE>>

\* C26 as stated: the derived title of an image is its file name stem with
\* every "_" replaced by a space and each space-separated word capitalized;
\* "-" and digits inside a word do not start a new capitalized word.
C26_TitlePerSpaceWord == derived_titles_are(TRUE)

\* C26 amended: the derived title is the stem with every "_" replaced by a
\* space and then str.title() applied: a letter is upper case exactly when the
\* character before it is not a letter (a space, "-", a digit, or none), and
\* lower case otherwise.
C26_TitlePerLetterRun == derived_titles_are(FALSE)

\* 2024q1_flow-rate.png and SNOW_pack.png without custom entries: the titles
\* in the data are "2024Q1 Flow-Rate" and "Snow Pack"
C26_Witness ==
  /\ just("generate_visualization_data")
  /\ files = {F_Q1_FLOW_RATE, F_SNOW_CAPS}
  /\ custom_descriptions_of(project_info[1]) = <<>>
  /\ viz_data[1].value.title
       = <<"2", "0", "2", "4", "Q", "1", " ", "F", "l", "o", "w", "-", "R", "a", "t", "e">>
  /\ viz_data[2].value.title = <<"S", "n", "o", "w", " ", "P", "a", "c", "k">>

\* the steps of a run in the order of the code: main, load_template (open and
\* read), extract_project_info (the tests and json.load), the two scans, the
\* keyer, the replacements, the substitution, and the write (open, write, return)
PIPELINE ==
  <<"main", "load_template", "load_template_read", "extract_project_info", "json_load",
    "find_visualizations", "find_dashboard", "generate_visualization_data",
    "replacements", "substitute", "save_open", "save_write", "save_return">>

stage_index(step) == CHOOSE k \in 1..Len(PIPELINE) : PIPELINE[k] = step

\* the steps taken so far are steps of the pipeline, each taken once and in
\* the order of the pipeline; the output is opened only after every step of
\* generate_html was taken (json.load only if a metadata file exists); a run
\* ends with the page written, with the message of main, or with an exception
\* raised by its last step
forward_pass ==
  /\ \A i \in 1..Len(stages) : \E k \in 1..Len(PIPELINE) : PIPELINE[k] = stages[i]
  /\ \A i \in 1..(Len(stages) - 1) : stage_index(stages[i]) < stage_index(stages[i+1])
  /\ took("save_open") =>
       /\ \A k \in 1..10 :
            (k = 5 /\ chosen_tier(config_file, summary_file) = "default") \/ took(PIPELINE[k])
       /\ html_content # <<>>
  /\ ~took("save_open") => website = website_before
  /\ pc = "done" <=> took("save_return")
  /\ pc = "failed" <=> error # ""
  /\ pc = "failed" =>
       \/ error = "FileNotFoundError" /\ (just("load_template") \/ just("save_open"))
       \/ error = "JSONDecodeError" /\ just("json_load")
       \/ error = "KeyError" /\ just("replacements")
       \/ error = "UnicodeEncodeError" /\ just("save_write")
  /\ pc = "returned" => stages = <<"main">> /\ stdout # <<>>

\* C27: an invocation takes at most the thirteen steps of the pipeline, each
\* at most once and in the order of the code, so it ends; it ends with the page
\* written, with an exception, or with the message of main; the step that
\* raised is the last step of its run, and the write comes last, after every
\* other step has completed.
C27_SingleForwardPass ==
  /\ forward_pass
  /\ Len(stages) <= Len(PIPELINE)

\* a run with a metadata file that took all thirteen steps and has ended
C27_Witness ==
  /\ pc = "done"
  /\ stages = PIPELINE
  /\ dict_get(website.files, output_path) = html_content[1]

\* the arguments of expandVisualization in the cards of the fragment, in order
card_keys(html) ==
  LET opens == positions(html, CARD_OPEN)
      srcs  == positions(html, CARD_SRC)
  IN  [i \in 1..Len(opens) |-> SubSeq(html, opens[i] + 1, srcs[i] - 1)]

\* C28: the key every visualization card passes to expandVisualization is a
\* key of the visualization-data map of the same run, the set of the cards'
\* keys is the set of the map's keys, and the map has at most as many entries
\* as there are cards (fewer exactly when two images share a key); the same
\* holds for the map as it is serialized into the replacements.
C28_CardKeysJoin ==
  (just("replacements") /\ error = "") =>
    LET html == dict_get(replacements, placeholder("VISUALIZATIONS"))
        keys == card_keys(html)
        used == {keys[i] : i \in 1..Len(keys)}
    IN  /\ Len(keys) = Len(images)
        /\ Len(positions(html, CARD_SRC)) = Len(images)
        /\ \A i \in 1..Len(keys) : dict_has(viz_data, keys[i])
        /\ used = {viz_data[n].key : n \in 1..Len(viz_data)}
        /\ Len(viz_data) = Cardinality(used)
        /\ Len(viz_data) <= Len(keys)
        /\ Len(viz_data) < Len(keys) <=> \E i, j \in 1..Len(keys) : i # j /\ keys[i] = keys[j]
        /\ dict_get(replacements, placeholder("VISUALIZATION_DATA")) = json_dumps(viz_data)

\* Water_Supply-2024.png and reservoir-levels.png: two cards, two entries,
\* the keys "reservoirlevels" and "watersupply2024" on both sides
C28_Witness ==
  /\ just("replacements") /\ error = ""
  /\ files = {F_WATER_SUPPLY, F_RESERVOIR_LEVELS}
  /\ card_keys(dict_get(replacements, placeholder("VISUALIZATIONS")))
       = <<KEY_WATERSUPPLY2024, KEY_RESERVOIRLEVELS>>
  /\ dict_keys(viz_data) = <<KEY_WATERSUPPLY2024, KEY_RESERVOIRLEVELS>>

\* the alt texts of the cards of the fragment, in order
card_alts(html) ==
  LET alts   == positions(html, "\" alt=\"")
      closes == positions(html, ALT_CLOSE)
  IN  [i \in 1..Len(alts) |-> SubSeq(html, alts[i] + 1, closes[i] - 1)]

\* C29: the alt text and the heading of every visualization card are the
\* title derived from the file name, whether or not visualization_descriptions
\* has an entry for the image's key; the map holds the custom title for an
\* image with a custom entry, and the title of the card for an image without
\* one whose key no later image has.
C29_CardTitleDerived ==
  (just("replacements") /\ error = "") =>
    LET html   == dict_get(replacements, placeholder("VISUALIZATIONS"))
        alts   == card_alts(html)
        closes == positions(html, ALT_CLOSE)
        keys   == card_keys(html)
        custom == custom_descriptions_of(project_info[1])
    IN  /\ Len(alts) = Len(images)
        /\ \A i \in 1..Len(images) :
             /\ alts[i] = title_by_words(stem_of(basename(images[i])), FALSE, FALSE)
             /\ SubSeq(html, closes[i] + 1, closes[i] + Len(alts[i])) = alts[i]
             /\ dict_has(custom, keys[i]) =>
                  dict_get(viz_data, keys[i]).title = dict_get(custom, keys[i]).title
             /\ (~dict_has(custom, keys[i]) /\ \A j \in (i+1)..Len(images) : keys[j] # keys[i]) =>
                  dict_get(viz_data, keys[i]).title = alts[i]

\* Snow_Pack.png with a custom entry and reservoir-levels.png without one: the
\* card of the first says "Snow Pack" while the map says "Custom Snow Title";
\* for the second both say "Reservoir-Levels"
C29_Witness ==
  /\ just("replacements") /\ error = ""
  /\ project_info[1] = CONFIG_FULL
  /\ files = {F_SNOW_PACK, F_RESERVOIR_LEVELS}
  /\ LET alts == card_alts(dict_get(replacements, placeholder("VISUALIZATIONS")))
     IN  /\ alts[1] = <<"S", "n", "o", "w", " ", "P", "a", "c", "k">>
         /\ dict_get(viz_data, KEY_SNOWPACK).title = <<"Custom Snow Title">>
         /\ alts[1] # dict_get(viz_data, KEY_SNOWPACK).title
         /\ alts[2] = dict_get(viz_data, KEY_RESERVOIRLEVELS).title
         /\ alts[2][10] = "-" /\ alts[2][11] = "L"

\* what the atoms lo..hi of the text put in by the k-th replacement (k = 0: the
\* template) have become in the document: a token of a placeholder that comes
\* later than k is replaced by what the value of that placeholder becomes, a
\* token of k or of an earlier placeholder stays as it is. The range is halved
\* so that the depth of the evaluation grows with the logarithm of the length.
RECURSIVE rescanned(_, _, _, _)
rescanned(text, lo, hi, k) ==
  IF lo > hi THEN <<>>
  ELSE IF lo < hi
    THEN LET mid == (lo + hi) \div 2
         IN  rescanned(text, lo, mid, k) \o rescanned(text, mid + 1, hi, k)
    ELSE LET m == token_at(text, lo)
             replaced(p) == p >= 1 /\ token_at(text, p) > k
         IN  IF m > k
               THEN rescanned(replacements[m].value, 1, Len(replacements[m].value), m)
               ELSE IF replaced(lo - 1) \/ replaced(lo - 2) THEN <<>>
               ELSE <<text[lo]>>

\* a value of the replacements holds a token of a recognized placeholder
token_in_value ==
  \E k \in 1..Len(replacements) :
    \E p \in 1..Len(replacements[k].value) : token_at(replacements[k].value, p) # 0

\* C30: the replacements act one after another on the whole text: for a template
\* whose tokens are not nested, the document is the template with every
\* recognized token replaced by its value, and in a value a token of a
\* recognized placeholder is replaced in turn exactly when its placeholder
\* comes later in the replacements than the one that put the value in; a token
\* of the same or an earlier placeholder is in the document as it was.
C30_ValuesRescanned ==
  (just("substitute") /\ separate_tokens(template_file[1])) =>
    html_content[1] = rescanned(template_file[1], 1, Len(template_file[1]), 0)

\* the title "About {{PROJECT_SUMMARY}}" and the description
\* "See {{PROJECT_TITLE}}": the summary is put into the title, the token of the
\* title stays in the description
C30_Witness ==
  /\ just("substitute")
  /\ template_file[1] = TEMPLATE_FULL
  /\ project_info[1] = CONFIG_TOKENS
  /\ token_in_value
  /\ Contains(html_content[1], <<"<html><head><title>", "About ", "Token summary",
                                 "</title></head><body><p>",
                                 "See ", "{{", "PROJECT_TITLE", "}}", "</p><div class=\"tech\">">>)
  /\ ~Contains(html_content[1], placeholder("PROJECT_SUMMARY"))

====
